---- MODULE Spec2Model ----
(***************************************************************************)
(* TMDB monthly backfill pipeline (src/src/movie.py).                      *)
(*                                                                         *)
(* Four specifications share this module:                                  *)
(*   SpecMR    month_ranges applied to bounded (start, end) date pairs     *)
(*   SpecGet   one safe_get call, one step per attempt                     *)
(*   SpecDisc  one discover_all call, one step per page                    *)
(*   Spec      run_monthly_backfill over the file system, with failures,   *)
(*             crashes and repeated invocations                            *)
(***************************************************************************)
EXTENDS Integers, Sequences, FiniteSets, TLC

VARIABLES
    \* ---- month_ranges ----
    mr_pc,          \* "call" | "done"
    mr_start,       \* start_date_str, a string (sequence of characters)
    mr_end,         \* end_date_str
    mr_out,         \* the returned list of (start, end) strings
    \* ---- safe_get ----
    sg_pc,          \* "idle" | "loop" | "returned" | "raised"
    sg_max_retries, \* the max_retries argument
    sg_backoff_base,\* the backoff_base argument
    sg_attempt,     \* the loop variable attempt (0-based)
    sg_requests,    \* number of SESSION.get calls issued
    sg_sleeps,      \* number of time.sleep calls that returned
    sg_hist,        \* the class of each attempt's outcome, in order
    sg_last,        \* the outcome of the last attempt
    sg_wait,        \* the wait computed after the last failed attempt
    sg_result,      \* what the call returned or raised
    \* ---- discover_all ----
    d_pc,           \* "idle" | "first" | "pages" | "returned" | "raised"
    d_has_max,      \* max_pages is not None
    d_max_pages,    \* the max_pages argument (0 when None)
    d_catalog,      \* what the provider holds for the window
    d_got_first,    \* the page-1 response has arrived
    d_reported,     \* first.get("total_pages", 1)
    d_total_pages,  \* the local total_pages after the caps
    d_p,            \* the loop variable p
    d_requested,    \* params["page"] of every safe_get call, in order
    d_movies,       \* the list movies
    d_warnings,     \* number of page-cap warnings logged
    d_failed,       \* the page whose safe_get raised (0: none)
    \* ---- run_monthly_backfill: the files ----
    cp_file,        \* tmdb_monthly_checkpoint.json
    cp_tmp,         \* tmdb_monthly_checkpoint.json.tmp
    parts,          \* tmdb_monthly_parts/: file name -> file
    masters,        \* the master files of the working directory: name -> file
    \* ---- run_monthly_backfill: the running invocation ----
    pc,             \* "init" | "config" | "genres" | "setup" | "loop" | "write" |
                    \* "cp_tmp" | "cp_replace" | "done" | "aborted" | "crashed"
    run_no,         \* number of invocations started
    start,          \* the start argument
    end,            \* the end argument
    ranges,         \* month_ranges(start, end)
    idx,            \* position of the for loop in ranges (1-based)
    done,           \* the set done
    df_part,        \* the table df_part
    \* ---- run_monthly_backfill: what the invocation has done so far ----
    loaded,         \* done_months as loaded at the start of the invocation
    fetched,        \* keys of the windows discover_all was called for
    skipped,        \* keys of the windows skipped as already done
    written,        \* keys of the windows whose to_parquet returned
    completed,      \* keys of the windows whose save_checkpoint returned
    failed_at,      \* position of the window whose processing raised (0: none)
    merged,         \* the merge step was entered
    prev_completed, \* what the previous invocation completed, when a window
                    \* of it failed and this invocation has the same arguments
    this_merge,     \* the artifact files read and the table written by the
                    \* merge of this invocation
    prev_merge,     \* the same for the last earlier invocation that merged
    \* ---- save_checkpoint / load_checkpoint called on their own ----
    ck_pc,          \* "idle" | "replace" (the temporary file is written)
    ck_arg,         \* the argument d of the last save_checkpoint call
    ck_prev,        \* the checkpoint file as it was when that call began
    ck_last,        \* the argument of the last save_checkpoint that returned
    ck_foreign,     \* the checkpoint file was last put there by something else
    ck_ops,         \* number of save_checkpoint calls and foreign changes
    ck_result,      \* the last finished call and its outcome
    \* ---- normalize_to_df ----
    n_pc,           \* "idle" | "call" | "returned" | "raised"
    n_raw,          \* raw_movies
    n_image_base,   \* image_base
    n_poster_size,  \* poster_size
    n_genres_map,   \* genres_map
    n_out,          \* the outcome of the call
    \* ---- run_monthly_backfill, one step per HTTP request ----
    b_pc,           \* "idle" | "config" | "genres" | "setup" | "loop" | "first"
                    \* | "pages" | "persist" | "done" | "aborted"
    b_start,        \* the start argument
    b_end,          \* the end argument
    b_has_max,      \* max_pages is not None
    b_max_pages,    \* the max_pages argument
    b_cp,           \* done_months of the checkpoint on disk
    b_ranges,       \* month_ranges(start, end): a function of the arguments,
                    \* held from the call on
    b_idx,          \* position in ranges of the loop variable (a, b)
    b_done,         \* the set done
    b_total_pages,  \* total_pages of the running discover_all call
    b_p,            \* the page of the running safe_get call of discover_all
    b_attempt,      \* the loop variable attempt of the running safe_get call
    b_req,          \* the last HTTP request issued
    b_calls,        \* number of safe_get calls begun, by endpoint
    b_pages,        \* number of safe_get calls begun by the running discover_all
    b_visits,       \* number of iterations of the window loop, by window
    \* ---- discover_all of src/movie.py, called after that of ----
    \* ---- src/src/movie.py with the same arguments and provider ----
    o_pc,           \* "idle" | "first" | "pages" | "returned" | "raised"
    o_total_pages,  \* total_pages after the limit
    o_p,            \* the loop variable p
    o_requested,    \* the pages requested, in order
    o_movies        \* the list movies

mrVars == <<mr_pc, mr_start, mr_end, mr_out>>

sgVars == <<sg_pc, sg_max_retries, sg_backoff_base, sg_attempt, sg_requests,
            sg_sleeps, sg_hist, sg_last, sg_wait, sg_result>>

dVars == <<d_pc, d_has_max, d_max_pages, d_catalog, d_got_first, d_reported,
           d_total_pages, d_p, d_requested, d_movies, d_warnings, d_failed>>

fsVars == <<cp_file, cp_tmp, parts, masters>>

runVars == <<pc, run_no, start, end, ranges, idx, done, df_part>>

logVars == <<loaded, fetched, skipped, written, completed, failed_at, merged,
             prev_completed, this_merge, prev_merge>>

ckVars == <<ck_pc, ck_arg, ck_prev, ck_last, ck_foreign, ck_ops, ck_result>>

nVars == <<n_pc, n_raw, n_image_base, n_poster_size, n_genres_map, n_out>>

bVars == <<b_pc, b_start, b_end, b_has_max, b_max_pages, b_cp, b_ranges, b_idx,
           b_done, b_total_pages, b_p, b_attempt, b_req, b_calls, b_pages, b_visits>>

oVars == <<o_pc, o_total_pages, o_p, o_requested, o_movies>>

vars == <<mrVars, sgVars, dVars, fsVars, runVars, logVars, ckVars, nVars, bVars,
          oVars>>

(***************************************************************************)
(* Bounds                                                                  *)
(***************************************************************************)
BaseYear == 2023
MaxYears == 2
\* safe_get is called with max_retries in 0..MaxRetriesArg or the default,
\* and backoff_base in 1..MaxBackoffBase
MaxRetriesArg == 2
MaxBackoffBase == 2
\* discover_all: total_pages and max_pages are drawn from 0..MaxSmallPages
\* and from the values around the provider cap, up to MaxOverCap pages past it
MaxSmallPages == 2
MaxOverCap == 2
\* run_monthly_backfill is invoked at most MaxRuns times on the same directory
MaxRuns == 2
\* save_checkpoint is called, or the checkpoint file is changed from
\* outside, at most MaxCkOps times
MaxCkOps == 2
\* normalize_to_df is called with lists of at most MaxRawLen raw records
MaxRawLen == 2

(***************************************************************************)
(* Strings are sequences of one-character strings.                         *)
(***************************************************************************)
Digits == <<"0", "1", "2", "3", "4", "5", "6", "7", "8", "9">>

DigitChar(n) == Digits[n + 1]

IsDigit(c) == \E n \in 0..9 : Digits[n + 1] = c

DigitVal(c) == CHOOSE n \in 0..9 : Digits[n + 1] = c

RECURSIVE DecimalValue(_)
\* value of a non-empty string of decimal digits
DecimalValue(s) ==
    IF Len(s) = 0 THEN 0
    ELSE 10 * DecimalValue(SubSeq(s, 1, Len(s) - 1)) + DigitVal(s[Len(s)])

(***************************************************************************)
(* Calendar: a date is <<year, month, day>> (datetime.date).               *)
(***************************************************************************)
IsLeap(y) == (y % 4 = 0 /\ y % 100 # 0) \/ y % 400 = 0

DaysInMonth(y, m) ==
    IF m = 2 THEN (IF IsLeap(y) THEN 29 ELSE 28)
    ELSE IF m \in {4, 6, 9, 11} THEN 30 ELSE 31

\* date.__le__ : chronological order
DateLE(a, b) ==
    \/ a[1] < b[1]
    \/ a[1] = b[1] /\ a[2] < b[2]
    \/ a[1] = b[1] /\ a[2] = b[2] /\ a[3] <= b[3]

\* min(last_day, e)
DateMin(a, b) == IF DateLE(a, b) THEN a ELSE b

\* cur + relativedelta(months=1): the day is clipped to the new month's length
AddMonth(d) ==
    LET y == IF d[2] = 12 THEN d[1] + 1 ELSE d[1]
        m == IF d[2] = 12 THEN 1 ELSE d[2] + 1
    IN  <<y, m, IF d[3] > DaysInMonth(y, m) THEN DaysInMonth(y, m) ELSE d[3]>>

\* nxt - timedelta(days=1)
PrevDay(d) ==
    IF d[3] > 1 THEN <<d[1], d[2], d[3] - 1>>
    ELSE IF d[2] > 1 THEN <<d[1], d[2] - 1, DaysInMonth(d[1], d[2] - 1)>>
    ELSE <<d[1] - 1, 12, 31>>

\* date.isoformat(): "YYYY-MM-DD"
isoformat(d) ==
    << DigitChar(d[1] \div 1000), DigitChar((d[1] \div 100) % 10),
       DigitChar((d[1] \div 10) % 10), DigitChar(d[1] % 10), "-",
       DigitChar(d[2] \div 10), DigitChar(d[2] % 10), "-",
       DigitChar(d[3] \div 10), DigitChar(d[3] % 10) >>

\* pd.to_datetime(s).date() on a "YYYY-MM-DD" string
to_date(s) ==
    << DecimalValue(SubSeq(s, 1, 4)), DecimalValue(SubSeq(s, 6, 7)),
       DecimalValue(SubSeq(s, 9, 10)) >>

(***************************************************************************)
(* month_ranges                                                            *)
(***************************************************************************)
\* a cursor started at the caller's own start day instead of day 1
FirstCursorUnfloored(s) == s

\* the first cursor: date(s.year, s.month, 1)
FirstCursor(s) == <<s[1], s[2], 1>>

\* a window end that is never clipped to the requested end
WindowEndUnclipped(last_day, e) == last_day

\* the end of one emitted window: min(last_day, e)
WindowEnd(last_day, e) == DateMin(last_day, e)

RECURSIVE MonthLoop(_, _, _)
\* the while loop: cur <= e
MonthLoop(cur, e, out) ==
    IF DateLE(cur, e)
    THEN LET nxt      == AddMonth(cur)
             last_day == PrevDay(nxt)
         IN  MonthLoop(nxt, e,
                 Append(out, <<isoformat(cur), isoformat(WindowEnd(last_day, e))>>))
    ELSE out

RECURSIVE Reverse(_)
Reverse(q) == IF Len(q) = 0 THEN <<>> ELSE Reverse(Tail(q)) \o <<q[1]>>

\* the windows with the latest first
MonthRangesLatestFirst(start_date_str, end_date_str) ==
    Reverse(MonthLoop(FirstCursor(to_date(start_date_str)), to_date(end_date_str), <<>>))

month_ranges(start_date_str, end_date_str) ==
    LET s == to_date(start_date_str)
        e == to_date(end_date_str)
    IN  MonthLoop(FirstCursor(s), e, <<>>)

(***************************************************************************)
(* SpecMR: month_ranges on bounded inputs                                  *)
(***************************************************************************)
Years == BaseYear .. (BaseYear + MaxYears - 1)

\* the days of a month that the inputs are drawn from: both ends, the middle
SampleDays == {1, 15, 28, 29, 30, 31}

SampleDates ==
    {<<y, m, d>> : y \in Years, m \in 1..12, d \in SampleDays} \cap
    {dt \in (Years \X (1..12) \X (1..31)) : dt[3] <= DaysInMonth(dt[1], dt[2])}

\* month_ranges is not running
MRIdle ==
    /\ mr_pc = "idle"
    /\ mr_start = <<>>
    /\ mr_end = <<>>
    /\ mr_out = <<>>

MRStart ==
    /\ mr_pc = "call"
    /\ \E s \in SampleDates, e \in SampleDates :
          /\ DateLE(s, e)
          /\ mr_start = isoformat(s)
          /\ mr_end = isoformat(e)
    /\ mr_out = <<>>

MRCall ==
    /\ mr_pc = "call"
    /\ mr_out' = month_ranges(mr_start, mr_end)
    /\ mr_pc' = "done"
    /\ UNCHANGED <<mr_start, mr_end>>

(***************************************************************************)
(* safe_get: one step per attempt of the retry loop.                       *)
(*                                                                         *)
(* An outcome of SESSION.get is a transport error (requests.RequestException)*)
(* or a response with a status code, an optional Retry-After header and a  *)
(* body.                                                                   *)
(***************************************************************************)
DefaultMaxRetries == 6
DefaultBackoffBase == 1

\* status codes the provider is drawn from: 200, another 2xx, client errors,
\* 429, both ends of the 5xx range and the first code past it
Statuses == {200, 201, 404, 429, 499, 500, 503, 599, 600}

Bodies == {"bodyA", "bodyB"}

\* Retry-After header texts: empty, zero, positive, two digits, signed,
\* not a number (an HTTP date, a decimal fraction)
RetryAfterTexts ==
    { <<>>, <<"0">>, <<"3">>, <<"1", "2">>, <<"-", "1">>, <<"+", "2">>,
      <<"W", "e", "d">>, <<"1", ".", "5">> }

TransportError ==
    [kind |-> "exc", status |-> 0, has_ra |-> FALSE, ra |-> <<>>, body |-> ""]

Responses ==
    { [kind |-> "resp", status |-> st, has_ra |-> FALSE, ra |-> <<>>, body |-> b] :
          st \in Statuses, b \in Bodies } \cup
    { [kind |-> "resp", status |-> 429, has_ra |-> TRUE, ra |-> t, body |-> b] :
          t \in RetryAfterTexts, b \in Bodies }

NoOutcome ==
    [kind |-> "none", status |-> 0, has_ra |-> FALSE, ra |-> <<>>, body |-> ""]

NoResult == [kind |-> "none", status |-> 0, body |-> ""]

\* 2 ** attempt
RECURSIVE Pow2(_)
Pow2(n) == IF n <= 0 THEN 1 ELSE 2 * Pow2(n - 1)

\* backoff_base * (2 ** attempt)
Backoff(base, attempt) == base * Pow2(attempt)

\* int(ra) succeeds: an optional sign followed by at least one decimal digit
\* (the texts above hold no blanks and no underscores)
IntParses(t) ==
    LET digits == IF Len(t) > 0 /\ t[1] \in {"-", "+"} THEN Tail(t) ELSE t
    IN  /\ Len(digits) > 0
        /\ \A i \in DOMAIN digits : IsDigit(digits[i])

\* the value int(ra) returns
IntValue(t) ==
    IF t[1] = "-" THEN 0 - DecimalValue(Tail(t))
    ELSE IF t[1] = "+" THEN DecimalValue(Tail(t))
    ELSE DecimalValue(t)

\* the 429 branch:
\*   ra = resp.headers.get("Retry-After")
\*   try: wait = int(ra) if ra else backoff   except Exception: wait = backoff
RateLimitWait(has_ra, ra, base, attempt) ==
    IF has_ra /\ Len(ra) > 0
    THEN (IF IntParses(ra) THEN IntValue(ra) ELSE Backoff(base, attempt))
    ELSE Backoff(base, attempt)

\* a server-error test that also takes the 4xx codes
IsServerErrorWide(status) == 400 <= status /\ status < 600

\* 500 <= resp.status_code < 600
IsServerError(status) == 500 <= status /\ status < 600

\* time.sleep(wait) raises ValueError for a negative wait
SleepRaises(wait) == wait < 0

\* the class of an outcome, as the if-chain of safe_get tells them apart
OutcomeClass(o) ==
    IF o.kind = "exc" THEN "exc"
    ELSE IF o.status = 200 THEN "200"
    ELSE IF o.status = 429 THEN "429"
    ELSE IF IsServerError(o.status) THEN "5xx"
    ELSE "other"

SGIdle ==
    /\ sg_pc = "idle"
    /\ sg_max_retries = 0
    /\ sg_backoff_base = 0
    /\ sg_attempt = 0
    /\ sg_requests = 0
    /\ sg_sleeps = 0
    /\ sg_hist = <<>>
    /\ sg_last = NoOutcome
    /\ sg_wait = 0
    /\ sg_result = NoResult

\* the call: safe_get(path, params, max_retries, backoff_base)
SGStart ==
    /\ sg_pc = "loop"
    /\ sg_max_retries \in (0..MaxRetriesArg) \cup {DefaultMaxRetries}
    /\ sg_backoff_base \in {DefaultBackoffBase} \cup (1..MaxBackoffBase)
    /\ sg_attempt = 0
    /\ sg_requests = 0
    /\ sg_sleeps = 0
    /\ sg_hist = <<>>
    /\ sg_last = NoOutcome
    /\ sg_wait = 0
    /\ sg_result = NoResult

\* SESSION.get is called and yields outcome o
SGRequest(o) ==
    /\ sg_pc = "loop"
    /\ sg_attempt < sg_max_retries
    /\ sg_requests' = sg_requests + 1
    /\ sg_hist' = Append(sg_hist, OutcomeClass(o))
    /\ sg_last' = o

\* wait is computed, logged and slept; then `continue`
SGSleepAndContinue(wait) ==
    /\ sg_wait' = wait
    /\ IF SleepRaises(wait)
       THEN /\ sg_pc' = "raised"
            /\ sg_result' = [kind |-> "ValueError", status |-> 0, body |-> ""]
            /\ UNCHANGED <<sg_attempt, sg_sleeps>>
       ELSE /\ sg_pc' = "loop"
            /\ sg_attempt' = sg_attempt + 1
            /\ sg_sleeps' = sg_sleeps + 1
            /\ UNCHANGED sg_result

\* except requests.RequestException
SGTransportError ==
    /\ SGRequest(TransportError)
    /\ SGSleepAndContinue(Backoff(sg_backoff_base, sg_attempt))
    /\ UNCHANGED <<sg_max_retries, sg_backoff_base>>

\* resp.status_code == 200: return resp.json()
SGOk ==
    \E o \in Responses :
        /\ o.status = 200
        /\ SGRequest(o)
        /\ sg_pc' = "returned"
        /\ sg_result' = [kind |-> "json", status |-> 200, body |-> o.body]
        /\ UNCHANGED <<sg_max_retries, sg_backoff_base, sg_attempt, sg_sleeps, sg_wait>>

\* resp.status_code == 429
SGRateLimited ==
    \E o \in Responses :
        /\ o.status # 200
        /\ o.status = 429
        /\ SGRequest(o)
        /\ SGSleepAndContinue(RateLimitWait(o.has_ra, o.ra, sg_backoff_base, sg_attempt))
        /\ UNCHANGED <<sg_max_retries, sg_backoff_base>>

\* 500 <= resp.status_code < 600
SGServerError ==
    \E o \in Responses :
        /\ o.status # 200
        /\ o.status # 429
        /\ IsServerError(o.status)
        /\ SGRequest(o)
        /\ SGSleepAndContinue(Backoff(sg_backoff_base, sg_attempt))
        /\ UNCHANGED <<sg_max_retries, sg_backoff_base>>

\* any other status: raise RuntimeError(f"HTTP {resp.status_code} - {resp.text}")
SGOtherStatus ==
    \E o \in Responses :
        /\ o.status # 200
        /\ o.status # 429
        /\ ~IsServerError(o.status)
        /\ SGRequest(o)
        /\ sg_pc' = "raised"
        /\ sg_result' = [kind |-> "HTTP", status |-> o.status, body |-> o.body]
        /\ UNCHANGED <<sg_max_retries, sg_backoff_base, sg_attempt, sg_sleeps, sg_wait>>

\* the for loop ends: raise RuntimeError("Max retries exceeded ...")
SGExhausted ==
    /\ sg_pc = "loop"
    /\ ~(sg_attempt < sg_max_retries)
    /\ sg_pc' = "raised"
    /\ sg_result' = [kind |-> "MaxRetries", status |-> 0, body |-> ""]
    /\ UNCHANGED <<sg_max_retries, sg_backoff_base, sg_attempt, sg_requests,
                   sg_sleeps, sg_hist, sg_last, sg_wait>>

(***************************************************************************)
(* discover_all: one step per safe_get call (one page).  A safe_get call   *)
(* either returns the page's JSON document or raises (SpecGet).            *)
(***************************************************************************)
TMDB_MAX_PAGES == 500

\* the provider's catalog for the window: one record per page, two records
\* per page with the second repeated on the next page, or documents without
\* a "results" key
Catalogs == {"single", "overlap", "noresults"}

\* j.get("results", []) of page p: the ids of the records
PageResults(catalog, p) ==
    IF catalog = "single" THEN <<p>>
    ELSE IF catalog = "overlap" THEN <<p, p + 1>>
    ELSE <<>>

\* total_pages values a page-1 document reports
TotalPagesReported ==
    (0..MaxSmallPages) \cup ((TMDB_MAX_PAGES - 1)..(TMDB_MAX_PAGES + MaxOverCap))

\* integer max_pages arguments (--max-pages takes any int)
MaxPagesArgs ==
    ((0 - 1)..MaxSmallPages) \cup (TMDB_MAX_PAGES..(TMDB_MAX_PAGES + 1))

\* a warning test that also fires at the cap itself
OverCapInclusive(total_pages) == total_pages >= TMDB_MAX_PAGES

\* a cap test that never fires
OverCapNever(total_pages) == FALSE

\* if total_pages > TMDB_MAX_PAGES
OverCap(total_pages) == total_pages > TMDB_MAX_PAGES

\* a limit that is applied to the count of the pages after page 1
ApplyMaxPagesAfterFirst(total_pages, has_max, max_pages) ==
    IF has_max /\ max_pages # 0
    THEN (IF total_pages < max_pages + 1 THEN total_pages ELSE max_pages + 1)
    ELSE total_pages

\* if max_pages: total_pages = min(total_pages, max_pages)
ApplyMaxPages(total_pages, has_max, max_pages) ==
    IF has_max /\ max_pages # 0
    THEN (IF total_pages < max_pages THEN total_pages ELSE max_pages)
    ELSE total_pages

DIdle ==
    /\ d_pc = "idle"
    /\ d_has_max = FALSE
    /\ d_max_pages = 0
    /\ d_catalog = "single"
    /\ d_got_first = FALSE
    /\ d_reported = 0
    /\ d_total_pages = 0
    /\ d_p = 0
    /\ d_requested = <<>>
    /\ d_movies = <<>>
    /\ d_warnings = 0
    /\ d_failed = 0

\* the call: discover_all(date_from, date_to, ..., max_pages)
DStart ==
    /\ d_pc = "first"
    /\ \/ d_has_max = FALSE /\ d_max_pages = 0
       \/ d_has_max = TRUE /\ d_max_pages \in MaxPagesArgs
    /\ d_catalog \in Catalogs
    /\ d_got_first = FALSE
    /\ d_reported = 0
    /\ d_total_pages = 0
    /\ d_p = 0
    /\ d_requested = <<>>
    /\ d_movies = <<>>
    /\ d_warnings = 0
    /\ d_failed = 0

\* first = safe_get(..., page 1) returns; the caps are applied; the for loop
\* is entered when total_pages >= 2, otherwise movies is returned
DFirstOk ==
    /\ d_pc = "first"
    /\ \E has_total \in BOOLEAN, total \in TotalPagesReported :
          LET reported == IF has_total THEN total ELSE 1
              capped   == IF OverCap(reported) THEN TMDB_MAX_PAGES ELSE reported
              limited  == ApplyMaxPages(capped, d_has_max, d_max_pages)
          IN  /\ has_total \/ total = 0
              /\ d_reported' = reported
              /\ d_warnings' = IF OverCap(reported) THEN d_warnings + 1 ELSE d_warnings
              /\ d_total_pages' = limited
              /\ d_pc' = IF limited >= 2 THEN "pages" ELSE "returned"
    /\ d_got_first' = TRUE
    /\ d_requested' = Append(d_requested, 1)
    /\ d_movies' = PageResults(d_catalog, 1)
    /\ d_p' = 2
    /\ UNCHANGED <<d_has_max, d_max_pages, d_catalog, d_failed>>

\* safe_get of page 1 raises
DFirstFails ==
    /\ d_pc = "first"
    /\ d_requested' = Append(d_requested, 1)
    /\ d_failed' = 1
    /\ d_pc' = "raised"
    /\ UNCHANGED <<d_has_max, d_max_pages, d_catalog, d_got_first, d_reported,
                   d_total_pages, d_p, d_movies, d_warnings>>

\* one iteration of: for p in range(2, total_pages + 1)
DPageOk ==
    /\ d_pc = "pages"
    /\ d_p <= d_total_pages
    /\ d_requested' = Append(d_requested, d_p)
    /\ d_movies' = d_movies \o PageResults(d_catalog, d_p)
    /\ d_p' = d_p + 1
    /\ d_pc' = IF d_p + 1 <= d_total_pages THEN "pages" ELSE "returned"
    /\ UNCHANGED <<d_has_max, d_max_pages, d_catalog, d_got_first, d_reported,
                   d_total_pages, d_warnings, d_failed>>

\* safe_get of page p raises
DPageFails ==
    /\ d_pc = "pages"
    /\ d_p <= d_total_pages
    /\ d_requested' = Append(d_requested, d_p)
    /\ d_failed' = d_p
    /\ d_pc' = "raised"
    /\ UNCHANGED <<d_has_max, d_max_pages, d_catalog, d_got_first, d_reported,
                   d_total_pages, d_p, d_movies, d_warnings>>

(***************************************************************************)
(* Strings: order and sorting (sorted() on str and on Path)                *)
(***************************************************************************)
\* the characters of the keys and file names, in code point order
Alphabet ==
    <<"-", ".", "0", "1", "2", "3", "4", "5", "6", "7", "8", "9", "_",
      "a", "b", "c", "d", "e", "i", "m", "o", "p", "q", "r", "s", "t", "u", "v">>

CharCode(c) == CHOOSE n \in DOMAIN Alphabet : Alphabet[n] = c

RECURSIVE StrLess(_, _)
\* s < t on strings
StrLess(s, t) ==
    IF Len(t) = 0 THEN FALSE
    ELSE IF Len(s) = 0 THEN TRUE
    ELSE IF s[1] = t[1] THEN StrLess(Tail(s), Tail(t))
    ELSE CharCode(s[1]) < CharCode(t[1])

RECURSIVE SortStrings(_)
\* sorted(S)
SortStrings(S) ==
    IF S = {} THEN <<>>
    ELSE LET m == CHOOSE x \in S : \A y \in S \ {x} : StrLess(x, y)
         IN  <<m>> \o SortStrings(S \ {m})

SeqRange(q) == {q[i] : i \in DOMAIN q}

(***************************************************************************)
(* Python values and JSON text (json.dump with indent=2, json.load).       *)
(*                                                                         *)
(* A value is None, an int, a str (sequence of characters), a list or a    *)
(* dict; a dict is the sequence of its <<key, value>> items in insertion   *)
(* order, the keys being strings.                                          *)
(***************************************************************************)
PyNone == [t |-> "none", v |-> <<>>]

PyInt(n) == [t |-> "int", v |-> n]

PyStr(s) == [t |-> "str", v |-> s]

PyList(l) == [t |-> "list", v |-> l]

PyDict(items) == [t |-> "dict", v |-> items]

RECURSIVE NatStr(_)
\* the decimal digits of a natural number
NatStr(n) ==
    IF n < 10 THEN <<DigitChar(n)>>
    ELSE NatStr(n \div 10) \o <<DigitChar(n % 10)>>

\* str(n) of an int
str(n) == IF n < 0 THEN <<"-">> \o NatStr(0 - n) ELSE NatStr(n)

\* d.get(key, default)
DictGet(d, key, default) ==
    IF \E i \in DOMAIN d.v : d.v[i][1] = key
    THEN d.v[CHOOSE i \in DOMAIN d.v : d.v[i][1] = key][2]
    ELSE default

Quote == "\""

Backslash == "\\"

Newline == "\n"

Whitespace == {" ", "\n", "\t", "\r"}

\* the indentation of nesting level lvl
Indent(lvl) == [i \in 1..(2 * lvl) |-> " "]

\* a string literal body written without escaping
EscapeStrNone(s) == s

RECURSIVE EscapeStr(_)
\* the body of a JSON string literal (ensure_ascii=False): the quote and
\* the backslash are escaped
EscapeStr(s) ==
    IF Len(s) = 0 THEN <<>>
    ELSE (IF s[1] \in {Quote, Backslash} THEN <<Backslash, s[1]>> ELSE <<s[1]>>)
         \o EscapeStr(Tail(s))

RECURSIVE JsonText(_, _)
RECURSIVE JsonItems(_, _)
RECURSIVE JsonMembers(_, _)
\* the items of a list, one per line
JsonItems(items, lvl) ==
    IF Len(items) = 0 THEN <<>>
    ELSE Indent(lvl) \o JsonText(items[1], lvl)
         \o (IF Len(items) > 1 THEN <<",", Newline>> ELSE <<>>)
         \o JsonItems(Tail(items), lvl)

\* the members of a dict, one per line
JsonMembers(items, lvl) ==
    IF Len(items) = 0 THEN <<>>
    ELSE Indent(lvl) \o <<Quote>> \o EscapeStr(items[1][1]) \o <<Quote, ":", " ">>
         \o JsonText(items[1][2], lvl)
         \o (IF Len(items) > 1 THEN <<",", Newline>> ELSE <<>>)
         \o JsonMembers(Tail(items), lvl)

\* the text json.dump(x, f, ensure_ascii=False, indent=2) writes, at
\* nesting level lvl
JsonText(x, lvl) ==
    CASE x.t = "none" -> <<"n", "u", "l", "l">>
      [] x.t = "int"  -> str(x.v)
      [] x.t = "str"  -> <<Quote>> \o EscapeStr(x.v) \o <<Quote>>
      [] x.t = "list" ->
            IF Len(x.v) = 0 THEN <<"[", "]">>
            ELSE <<"[", Newline>> \o JsonItems(x.v, lvl + 1)
                 \o <<Newline>> \o Indent(lvl) \o <<"]">>
      [] x.t = "dict" ->
            IF Len(x.v) = 0 THEN <<"{", "}">>
            ELSE <<"{", Newline>> \o JsonMembers(x.v, lvl + 1)
                 \o <<Newline>> \o Indent(lvl) \o <<"}">>

json_dump(x) == JsonText(x, 0)

\* a parse result: the value and the position after it, or a failure
ParseFail == [ok |-> FALSE, val |-> PyNone, nxt |-> 0]

ParseOk(val, nxt) == [ok |-> TRUE, val |-> val, nxt |-> nxt]

RECURSIVE SkipWs(_, _)
\* the first position from i on that holds no whitespace
SkipWs(s, i) ==
    IF i <= Len(s) /\ s[i] \in Whitespace THEN SkipWs(s, i + 1) ELSE i

RECURSIVE ScanString(_, _, _)
\* the rest of a string literal from position i on, acc being its value so far
ScanString(s, i, acc) ==
    IF i > Len(s) THEN ParseFail
    ELSE IF s[i] = Quote THEN ParseOk(PyStr(acc), i + 1)
    ELSE IF s[i] = Backslash
         THEN IF i + 1 <= Len(s) /\ s[i + 1] \in {Quote, Backslash}
              THEN ScanString(s, i + 2, Append(acc, s[i + 1]))
              ELSE ParseFail
    ELSE IF s[i] \in {"\n", "\t", "\r"} THEN ParseFail
    ELSE ScanString(s, i + 1, Append(acc, s[i]))

RECURSIVE ScanDigits(_, _)
\* the position after the digits that start at i
ScanDigits(s, i) ==
    IF i <= Len(s) /\ IsDigit(s[i]) THEN ScanDigits(s, i + 1) ELSE i

\* an integer literal at position i
ParseInt(s, i) ==
    LET neg == s[i] = "-"
        d   == IF neg THEN i + 1 ELSE i
        e   == ScanDigits(s, d)
    IN  IF e = d \/ (e > d + 1 /\ s[d] = "0") THEN ParseFail
        ELSE ParseOk(PyInt(IF neg THEN 0 - DecimalValue(SubSeq(s, d, e - 1))
                                  ELSE DecimalValue(SubSeq(s, d, e - 1))), e)

RECURSIVE ParseValue(_, _)
RECURSIVE ParseItems(_, _, _)
RECURSIVE ParseMembers(_, _, _)
\* the items of a list from position i on (after "[" or ","), up to "]"
ParseItems(s, i, acc) ==
    LET r == ParseValue(s, SkipWs(s, i))
        k == SkipWs(s, r.nxt)
    IN  IF ~r.ok \/ k > Len(s) THEN ParseFail
        ELSE IF s[k] = "," THEN ParseItems(s, k + 1, Append(acc, r.val))
        ELSE IF s[k] = "]" THEN ParseOk(PyList(Append(acc, r.val)), k + 1)
        ELSE ParseFail

\* the members of a dict from position i on (after "{" or ","), up to "}"
ParseMembers(s, i, acc) ==
    LET j  == SkipWs(s, i)
        kr == IF j <= Len(s) /\ s[j] = Quote THEN ScanString(s, j + 1, <<>>)
              ELSE ParseFail
        c  == SkipWs(s, kr.nxt)
    IN  IF ~kr.ok \/ c > Len(s) \/ s[c] # ":" THEN ParseFail
        ELSE LET r == ParseValue(s, SkipWs(s, c + 1))
                 k == SkipWs(s, r.nxt)
             IN  IF ~r.ok \/ k > Len(s) THEN ParseFail
                 ELSE IF s[k] = ","
                      THEN ParseMembers(s, k + 1, Append(acc, <<kr.val.v, r.val>>))
                 ELSE IF s[k] = "}"
                      THEN ParseOk(PyDict(Append(acc, <<kr.val.v, r.val>>)), k + 1)
                 ELSE ParseFail

\* the JSON value that starts at position i (no whitespace at i)
ParseValue(s, i) ==
    IF i > Len(s) THEN ParseFail
    ELSE IF s[i] = Quote THEN ScanString(s, i + 1, <<>>)
    ELSE IF s[i] = "[" THEN
         LET j == SkipWs(s, i + 1)
         IN  IF j <= Len(s) /\ s[j] = "]" THEN ParseOk(PyList(<<>>), j + 1)
             ELSE ParseItems(s, i + 1, <<>>)
    ELSE IF s[i] = "{" THEN
         LET j == SkipWs(s, i + 1)
         IN  IF j <= Len(s) /\ s[j] = "}" THEN ParseOk(PyDict(<<>>), j + 1)
             ELSE ParseMembers(s, i + 1, <<>>)
    ELSE IF s[i] = "n" THEN
         IF i + 3 <= Len(s) /\ SubSeq(s, i, i + 3) = <<"n", "u", "l", "l">>
         THEN ParseOk(PyNone, i + 4) ELSE ParseFail
    ELSE IF s[i] = "-" \/ IsDigit(s[i]) THEN ParseInt(s, i)
    ELSE ParseFail

\* json.load of a decoded text: the value, or json.JSONDecodeError when
\* the text is not one JSON document
json_load(text) ==
    LET r == ParseValue(text, SkipWs(text, 1))
    IN  IF r.ok /\ SkipWs(text, r.nxt) = Len(text) + 1 THEN r ELSE ParseFail

(***************************************************************************)
(* Files                                                                   *)
(***************************************************************************)
Absent == [state |-> "absent", data |-> <<>>]

\* a file whose write was interrupted
Partial == [state |-> "partial", data |-> <<>>]

Complete(data) == [state |-> "ok", data |-> data]

\* f with the file name n bound to file v
WithFile(f, n, v) == [x \in DOMAIN f \cup {n} |-> IF x = n THEN v ELSE f[x]]

\* key = f"{a}_{b}"
WindowKey(a, b) == a \o <<"_">> \o b

\* part_filename: OUT_DIR / f"tmdb_{start}_to_{end}.parquet"
part_filename(a, b) ==
    <<"t", "m", "d", "b", "_">> \o a \o <<"_", "t", "o", "_">> \o b \o <<".", "p", "a", "r", "q", "u", "e", "t">>

\* master files named by the year of the start date alone
MasterPathsOfStartYear(s, e) ==
    LET suffix == SubSeq(s, 1, 4)
    IN  << <<"t", "m", "d", "b", "_", "m", "o", "v", "i", "e", "s", "_">> \o suffix \o <<".", "c", "s", "v">>,
           <<"t", "m", "d", "b", "_", "m", "o", "v", "i", "e", "s", "_">> \o suffix \o <<".", "p", "a", "r", "q", "u", "e", "t">> >>

\* master_paths: the names of the two master files
master_paths(s, e) ==
    LET year_from == SubSeq(s, 1, 4)
        year_to   == SubSeq(e, 1, 4)
        suffix    == IF year_from = year_to THEN year_from
                     ELSE year_from \o <<"-">> \o year_to
    IN  << <<"t", "m", "d", "b", "_", "m", "o", "v", "i", "e", "s", "_">> \o suffix \o <<".", "c", "s", "v">>,
           <<"t", "m", "d", "b", "_", "m", "o", "v", "i", "e", "s", "_">> \o suffix \o <<".", "p", "a", "r", "q", "u", "e", "t">> >>

\* a file that holds the text data
TextFile(text) == [state |-> "text", data |-> text]

\* a file whose bytes are not UTF-8
Undecodable == [state |-> "bytes", data |-> <<>>]

\* a path that exists and that open() refuses (OSError): no permission,
\* a directory
Unreadable == [state |-> "locked", data |-> <<>>]

DoneMonthsKey == <<"d", "o", "n", "e", "_", "m", "o", "n", "t", "h", "s">>

\* a document that keeps only the keys of the windows of the running
\* invocation
CheckpointOfRange(keys) ==
    LET InRange(k) == \E i \in DOMAIN ranges : k = ranges[i][1] \o <<"_">> \o ranges[i][2]
        kept == SelectSeq(keys, InRange)
    IN  [t |-> "dict",
         v |-> << <<<<"d", "o", "n", "e", "_", "m", "o", "n", "t", "h", "s">>,
                    [t |-> "list", v |-> [i \in DOMAIN kept |-> [t |-> "str", v |-> kept[i]]]]>> >>]

\* {"done_months": keys}
Checkpoint(keys) ==
    PyDict(<< <<DoneMonthsKey, PyList([i \in DOMAIN keys |-> PyStr(keys[i])])>> >>)

EmptyCheckpoint == Checkpoint(<<>>)

\* the outcome of a call: the value returned, or the exception raised
Returned(v) == [raised |-> "", val |-> v]

Raised(e) == [raised |-> e, val |-> PyNone]

\* load_checkpoint: the document of the file when it exists, opens, decodes
\* and parses; the empty checkpoint when it does not exist, or when open
\* raises OSError or json.load raises JSONDecodeError; a decoding error is
\* not caught
load_checkpoint(f) ==
    IF f.state = "absent" THEN Returned(EmptyCheckpoint)
    ELSE IF f.state = "locked" THEN Returned(EmptyCheckpoint)
    ELSE IF f.state = "bytes" THEN Raised("UnicodeDecodeError")
    ELSE LET r == json_load(f.data)
         IN  IF r.ok THEN Returned(r.val) ELSE Returned(EmptyCheckpoint)

\* set(cp.get("done_months", [])): the strings of the list (an item that is
\* not a string equals no window key and is left out); the characters of a
\* string; the keys of a dict
done_months(cp) ==
    IF cp.t # "dict" THEN Raised("AttributeError")
    ELSE LET v == DictGet(cp, DoneMonthsKey, PyList(<<>>))
         IN  IF v.t = "list"
             THEN IF \E i \in DOMAIN v.v : v.v[i].t \in {"list", "dict"}
                  THEN Raised("TypeError")
                  ELSE Returned({v.v[i].v : i \in {j \in DOMAIN v.v : v.v[j].t = "str"}})
             ELSE IF v.t = "str" THEN Returned({<<v.v[i]>> : i \in DOMAIN v.v})
             ELSE IF v.t = "dict" THEN Returned({v.v[i][1] : i \in DOMAIN v.v})
             ELSE Raised("TypeError")

\* where a write of text may be cut: before the first character, before
\* the last character
TruncationPoints(text) == {0, Len(text) - 1}

\* save_checkpoint, lines 209-211, done in place: an interrupted write
\* truncates the checkpoint file itself
InterruptedWriteInPlace(d) ==
    /\ \E n \in TruncationPoints(json_dump(d)) :
          cp_file' = TextFile(SubSeq(json_dump(d), 1, n))
    /\ cp_tmp' = cp_tmp

\* save_checkpoint, lines 209-211, interrupted (open or json.dump raises, or
\* the process is killed): the temporary file is as it was (open failed) or
\* holds a strict prefix of the text; the checkpoint file is not touched
InterruptedTmpWrite(d) ==
    /\ \/ cp_tmp' = cp_tmp
       \/ \E n \in TruncationPoints(json_dump(d)) :
             cp_tmp' = TextFile(SubSeq(json_dump(d), 1, n))
    /\ cp_file' = cp_file

\* save_checkpoint, lines 209-211: the temporary file holds the whole text
SaveWriteTmp(d) ==
    /\ cp_tmp' = TextFile(json_dump(d))
    /\ cp_file' = cp_file

\* save_checkpoint, line 212: tmp.replace(CHECKPOINT_MONTHS), atomic
SaveReplace ==
    /\ cp_file' = cp_tmp
    /\ cp_tmp' = Absent

\* a skip test that never skips
IsDoneNever(key, d) == FALSE

\* if key in done
IsDone(key, d) == key \in d

(***************************************************************************)
(* normalize_to_df and the tables.  A raw record is a dict with string     *)
(* keys: a function from the keys it has to values.  A table (DataFrame)   *)
(* is its column names, in order, and its rows, each a function from the   *)
(* column names to values; None stands for every null of a table.          *)
(***************************************************************************)
COLS ==
    <<"tmdb_id", "title", "original_title", "release_date", "genres",
      "vote_average", "vote_count", "popularity", "original_language",
      "overview", "poster_url">>

\* the keys of the dict appended to rows, in the order they are written
RowKeys ==
    <<"tmdb_id", "title", "original_title", "release_date", "genres",
      "vote_average", "vote_count", "popularity", "original_language",
      "overview", "poster_url">>

\* m.get(k)
Get(m, k) == IF k \in DOMAIN m THEN m[k] ELSE PyNone

\* m.get(k, default)
GetOr(m, k, default) == IF k \in DOMAIN m THEN m[k] ELSE default

\* bool(v)
Truthy(v) ==
    CASE v.t = "none" -> FALSE
      [] v.t = "int"  -> v.v # 0
      [] v.t \in {"str", "list", "dict"} -> Len(v.v) > 0

\* str(v), also what an f-string puts for {v}
Format(v) ==
    CASE v.t = "none" -> <<"N", "o", "n", "e">>
      [] v.t = "int"  -> str(v.v)
      [] v.t = "str"  -> v.v

RECURSIVE Join(_, _)
\* sep.join(names)
Join(names, sep) ==
    IF Len(names) = 0 THEN <<>>
    ELSE IF Len(names) = 1 THEN names[1]
    ELSE names[1] \o sep \o Join(Tail(names), sep)

\* a lookup that gives the empty string for a code the map does not have
GenreNameOrEmpty(genres_map, gid) ==
    IF gid.t = "int" /\ gid.v \in DOMAIN genres_map THEN genres_map[gid.v]
    ELSE <<>>

\* genres_map.get(gid, str(gid))
GenreName(genres_map, gid) ==
    IF gid.t = "int" /\ gid.v \in DOMAIN genres_map THEN genres_map[gid.v]
    ELSE Format(gid)

\* genre_names, line 189: the outcome of the list comprehension; iterating
\* None or an int raises TypeError, iterating a str gives its characters
GenreNames(m, genres_map) ==
    LET ids == GetOr(m, "genre_ids", PyList(<<>>))
    IN  IF ids.t = "list"
        THEN Returned([i \in DOMAIN ids.v |-> GenreName(genres_map, ids.v[i])])
        ELSE IF ids.t = "str"
        THEN Returned([i \in DOMAIN ids.v |-> <<ids.v[i]>>])
        ELSE Raised("TypeError")

\* a poster_url built for every poster_path that is not None
PosterUrlOfNotNone(m, image_base, poster_size) ==
    LET poster_path == Get(m, "poster_path")
    IN  IF poster_path.t # "none"
        THEN PyStr(image_base \o poster_size \o Format(poster_path))
        ELSE PyNone

\* poster_url, lines 190-191
PosterUrl(m, image_base, poster_size) ==
    LET poster_path == Get(m, "poster_path")
    IN  IF Truthy(poster_path)
        THEN PyStr(image_base \o poster_size \o Format(poster_path))
        ELSE PyNone

\* the dict appended to rows, lines 192-204
RowOf(m, image_base, poster_size, genres_map) ==
    [c \in SeqRange(RowKeys) |->
        CASE c = "tmdb_id"           -> Get(m, "id")
          [] c = "title"             -> Get(m, "title")
          [] c = "original_title"    -> Get(m, "original_title")
          [] c = "release_date"      -> Get(m, "release_date")
          [] c = "genres"            ->
                PyStr(Join(GenreNames(m, genres_map).val, <<"|">>))
          [] c = "vote_average"      -> Get(m, "vote_average")
          [] c = "vote_count"        -> Get(m, "vote_count")
          [] c = "popularity"        -> Get(m, "popularity")
          [] c = "original_language" -> Get(m, "original_language")
          [] c = "overview"          -> Get(m, "overview")
          [] c = "poster_url"        -> PosterUrl(m, image_base, poster_size)]

\* pd.DataFrame(rows): the columns are the keys of the dicts; no row, no
\* column
DataFrame(rows) ==
    [columns |-> IF Len(rows) = 0 THEN <<>> ELSE RowKeys, rows |-> rows]

\* pd.DataFrame(columns=COLS)
EmptyFrame == [columns |-> COLS, rows |-> <<>>]

\* a reindex that leaves the table as it is
ReindexNone(df, cols) == df

\* df.reindex(columns=cols): the columns are cols; a column df does not
\* have is null
Reindex(df, cols) ==
    [columns |-> cols,
     rows |-> [i \in DOMAIN df.rows |->
                 [c \in SeqRange(cols) |->
                     IF c \in SeqRange(df.columns) THEN df.rows[i][c]
                     ELSE PyNone]]]

\* normalize_to_df: the table, or the TypeError of a record whose
\* genre_ids cannot be iterated
normalize_to_df(raw_movies, image_base, poster_size, genres_map) ==
    IF \E i \in DOMAIN raw_movies : GenreNames(raw_movies[i], genres_map).raised # ""
    THEN Raised("TypeError")
    ELSE Returned(Reindex(DataFrame([i \in DOMAIN raw_movies |->
                     RowOf(raw_movies[i], image_base, poster_size, genres_map)]),
                          COLS))

RECURSIVE DropDuplicates(_, _)
\* the rows whose tmdb_id is not in seen and not in an earlier row
DropDuplicates(rows, seen) ==
    IF Len(rows) = 0 THEN <<>>
    ELSE IF rows[1].tmdb_id \in seen THEN DropDuplicates(Tail(rows), seen)
    ELSE <<rows[1]>> \o DropDuplicates(Tail(rows), seen \cup {rows[1].tmdb_id})

\* a table left with its repeated ids
KeepDuplicates(df) == df

\* the last row of each id is kept
KeepLastDuplicates(df) ==
    [columns |-> df.columns, rows |-> Reverse(DropDuplicates(Reverse(df.rows), {}))]

\* df.drop_duplicates(subset=["tmdb_id"]).reset_index(drop=True): the first
\* row of each id is kept
drop_duplicates(df) ==
    [columns |-> df.columns, rows |-> DropDuplicates(df.rows, {})]

RECURSIVE ConcatRows(_, _)
\* the rows of the files, in the order of names
ConcatRows(names, files) ==
    IF Len(names) = 0 THEN <<>>
    ELSE files[names[1]].data.rows \o ConcatRows(Tail(names), files)

\* pd.concat([pd.read_parquet(p) for p in parts], ignore_index=True) of a
\* non-empty list of files whose tables have the same columns
ConcatFiles(names, files) ==
    [columns |-> files[names[1]].data.columns, rows |-> ConcatRows(names, files)]

(***************************************************************************)
(* run_monthly_backfill                                                    *)
(***************************************************************************)
\* the (start, end) arguments of the invocations: a mid-month start with a
\* clipped and with a full last month, and a start after the end, in
\* another year
RunArgs ==
    {<< <<BaseYear, 1, 15>>, <<BaseYear, 2, 10>> >>,
     << <<BaseYear, 1, 15>>, <<BaseYear, 3, 31>> >>,
     << <<BaseYear + 1, 3, 1>>, <<BaseYear, 2, 10>> >>}

\* a raw record with an id and a title
Movie(id, title) == [id |-> PyInt(id), title |-> PyStr(title)]

\* the raw record lists discover_all returns for the window that starts at
\* a: none, or the movies m and m + 1 of the month m, the first of them
\* once more under another title
RawSamples(a) ==
    LET m == DecimalValue(SubSeq(a, 6, 7))
    IN  {<<>>, <<Movie(m, str(m)), Movie(m + 1, str(m)), Movie(m, <<"x">>)>>}

\* what get_image_base_and_size and get_genre_map returned
RunImageBase == <<"h", "/">>

RunPosterSize == <<"w", "5", "0", "0">>

RunGenresMap == [g \in {28} |-> <<"A", "c", "t", "i", "o", "n">>]

\* no merge has written a master
NoMerge == [files |-> <<>>, master |-> EmptyFrame]

\* a merge that reads only the artifacts of the windows in done
MergeInputsOfDone(files) ==
    SortStrings({n \in DOMAIN files :
                    \E k \in done : n = part_filename(SubSeq(k, 1, 10), SubSeq(k, 12, 21))})

\* a merge that reads the artifacts in an order that changes from one
\* invocation to the next
MergeInputsByRun(files) ==
    IF run_no % 2 = 0 THEN Reverse(SortStrings(DOMAIN files))
    ELSE SortStrings(DOMAIN files)

\* parts = sorted(OUT_DIR.glob("tmdb_*.parquet")): every file of the
\* directory, by name
MergeInputs(files) == SortStrings(DOMAIN files)

Running == pc \in {"config", "genres", "setup", "loop", "write", "cp_tmp", "cp_replace"}

CurA == ranges[idx][1]

CurB == ranges[idx][2]

CurKey == WindowKey(CurA, CurB)

RunIdle ==
    /\ cp_file = Absent
    /\ cp_tmp = Absent
    /\ parts = <<>>
    /\ masters = <<>>
    /\ pc = "init"
    /\ run_no = 0
    /\ start = <<>>
    /\ end = <<>>
    /\ ranges = <<>>
    /\ idx = 0
    /\ done = {}
    /\ df_part = EmptyFrame
    /\ loaded = {}
    /\ fetched = <<>>
    /\ skipped = <<>>
    /\ written = <<>>
    /\ completed = {}
    /\ failed_at = 0
    /\ merged = FALSE
    /\ prev_completed = {}
    /\ this_merge = NoMerge
    /\ prev_merge = NoMerge

\* python src/movie.py --from start --to end
RunStart ==
    /\ pc \in {"init", "done", "aborted", "crashed"}
    /\ run_no < MaxRuns
    /\ \E a \in RunArgs :
          /\ start' = isoformat(a[1])
          /\ end' = isoformat(a[2])
    /\ prev_completed' = IF failed_at # 0 /\ start' = start /\ end' = end
                         THEN completed ELSE {}
    /\ pc' = "config"
    /\ run_no' = run_no + 1
    /\ ranges' = <<>>
    /\ idx' = 0
    /\ done' = {}
    /\ df_part' = EmptyFrame
    /\ loaded' = {}
    /\ fetched' = <<>>
    /\ skipped' = <<>>
    /\ written' = <<>>
    /\ completed' = {}
    /\ failed_at' = 0
    /\ merged' = FALSE
    /\ this_merge' = NoMerge
    /\ prev_merge' = IF this_merge # NoMerge THEN this_merge ELSE prev_merge
    /\ UNCHANGED fsVars

\* get_image_base_and_size() returns
RunConfigOk ==
    /\ pc = "config"
    /\ pc' = "genres"
    /\ UNCHANGED <<fsVars, run_no, start, end, ranges, idx, done, df_part, logVars>>

\* get_genre_map(language) returns
RunGenresOk ==
    /\ pc = "genres"
    /\ pc' = "setup"
    /\ UNCHANGED <<fsVars, run_no, start, end, ranges, idx, done, df_part, logVars>>

\* safe_get raises in get_image_base_and_size or get_genre_map
RunMetadataFails ==
    /\ pc \in {"config", "genres"}
    /\ pc' = "aborted"
    /\ UNCHANGED <<fsVars, run_no, start, end, ranges, idx, done, df_part, logVars>>

\* ranges = month_ranges(start, end); cp = load_checkpoint();
\* done = set(cp.get("done_months", []))
RunSetup ==
    /\ pc = "setup"
    /\ ranges' = month_ranges(start, end)
    /\ LET cp == load_checkpoint(cp_file)
           dm == IF cp.raised = "" THEN done_months(cp.val) ELSE cp
       IN  IF dm.raised = ""
           THEN /\ done' = dm.val
                /\ loaded' = dm.val
                /\ idx' = 1
                /\ pc' = "loop"
           ELSE /\ pc' = "aborted"
                /\ UNCHANGED <<done, loaded, idx>>
    /\ UNCHANGED <<fsVars, run_no, start, end, df_part, fetched, skipped, written,
                   completed, failed_at, merged, prev_completed, this_merge, prev_merge>>

\* if key in done: continue
RunSkip ==
    /\ pc = "loop"
    /\ idx <= Len(ranges)
    /\ IsDone(CurKey, done)
    /\ skipped' = Append(skipped, CurKey)
    /\ idx' = idx + 1
    /\ UNCHANGED <<fsVars, pc, run_no, start, end, ranges, done, df_part, loaded,
                   fetched, written, completed, failed_at, merged, prev_completed, this_merge, prev_merge>>

\* raw = discover_all(a, b, ...) returns; df_part is built:
\* empty for no raw item, else normalize_to_df and drop_duplicates
RunDiscoverOk ==
    /\ pc = "loop"
    /\ idx <= Len(ranges)
    /\ ~IsDone(CurKey, done)
    /\ \E raw \in RawSamples(CurA) :
          df_part' = IF Len(raw) = 0 THEN EmptyFrame
                     ELSE drop_duplicates(normalize_to_df(raw, RunImageBase,
                                              RunPosterSize, RunGenresMap).val)
    /\ fetched' = Append(fetched, CurKey)
    /\ pc' = "write"
    /\ UNCHANGED <<fsVars, run_no, start, end, ranges, idx, done, loaded, skipped,
                   written, completed, failed_at, merged, prev_completed, this_merge, prev_merge>>

\* discover_all raises and the except clause re-raises, but the loop goes on
RunDiscoverFailsSkipped ==
    /\ pc = "loop"
    /\ idx <= Len(ranges)
    /\ ~IsDone(CurKey, done)
    /\ fetched' = Append(fetched, CurKey)
    /\ failed_at' = idx
    /\ idx' = idx + 1
    /\ UNCHANGED <<fsVars, pc, run_no, start, end, ranges, done, df_part, loaded,
                   skipped, written, completed, merged, prev_completed, this_merge, prev_merge>>

\* discover_all raises: log.exception, raise
RunDiscoverFails ==
    /\ pc = "loop"
    /\ idx <= Len(ranges)
    /\ ~IsDone(CurKey, done)
    /\ fetched' = Append(fetched, CurKey)
    /\ failed_at' = idx
    /\ pc' = "aborted"
    /\ UNCHANGED <<fsVars, run_no, start, end, ranges, idx, done, df_part, loaded,
                   skipped, written, completed, merged, prev_completed, this_merge, prev_merge>>

\* df_part.to_parquet(outp) returns; done.add(key)
RunWritePartOk ==
    /\ pc = "write"
    /\ parts' = WithFile(parts, part_filename(CurA, CurB), Complete(df_part))
    /\ written' = Append(written, CurKey)
    /\ done' = done \cup {CurKey}
    /\ pc' = "cp_tmp"
    /\ UNCHANGED <<cp_file, cp_tmp, masters, run_no, start, end, ranges, idx,
                   df_part, loaded, fetched, skipped, completed, failed_at, merged,
                   prev_completed, this_merge, prev_merge>>

\* what an interrupted to_parquet leaves: the directory as it was, or a
\* truncated file under the window's name
InterruptedPartWrite ==
    \/ parts' = parts
    \/ parts' = WithFile(parts, part_filename(CurA, CurB), Partial)

\* to_parquet raises, yet the window is marked done and checkpointed
RunWritePartFailsMarked ==
    /\ pc = "write"
    /\ InterruptedPartWrite
    /\ done' = done \cup {CurKey}
    /\ pc' = "cp_tmp"
    /\ UNCHANGED <<cp_file, cp_tmp, masters, run_no, start, end, ranges, idx,
                   df_part, logVars>>

\* to_parquet raises: log.exception, raise
RunWritePartFails ==
    /\ pc = "write"
    /\ InterruptedPartWrite
    /\ failed_at' = idx
    /\ pc' = "aborted"
    /\ UNCHANGED <<cp_file, cp_tmp, masters, run_no, start, end, ranges, idx, done,
                   df_part, loaded, fetched, skipped, written, completed, merged,
                   prev_completed, this_merge, prev_merge>>

\* save_checkpoint, first half: the temporary file is written
\* with {"done_months": sorted(done)}
RunSaveTmpOk ==
    /\ pc = "cp_tmp"
    /\ SaveWriteTmp(Checkpoint(SortStrings(done)))
    /\ pc' = "cp_replace"
    /\ UNCHANGED <<parts, masters, run_no, start, end, ranges, idx, done,
                   df_part, logVars>>

\* open or json.dump raises in save_checkpoint: log.exception, raise
RunSaveTmpFails ==
    /\ pc = "cp_tmp"
    /\ InterruptedTmpWrite(Checkpoint(SortStrings(done)))
    /\ failed_at' = idx
    /\ pc' = "aborted"
    /\ UNCHANGED <<parts, masters, run_no, start, end, ranges, idx, done,
                   df_part, loaded, fetched, skipped, written, completed, merged,
                   prev_completed, this_merge, prev_merge>>

\* save_checkpoint, second half: tmp.replace(CHECKPOINT_MONTHS); the loop
\* moves to the next window
RunSaveReplaceOk ==
    /\ pc = "cp_replace"
    /\ SaveReplace
    /\ completed' = completed \cup {CurKey}
    /\ idx' = idx + 1
    /\ pc' = "loop"
    /\ UNCHANGED <<parts, masters, run_no, start, end, ranges, done, df_part,
                   loaded, fetched, skipped, written, failed_at, merged, prev_completed, this_merge, prev_merge>>

\* tmp.replace raises: log.exception, raise
RunSaveReplaceFails ==
    /\ pc = "cp_replace"
    /\ failed_at' = idx
    /\ pc' = "aborted"
    /\ UNCHANGED <<fsVars, run_no, start, end, ranges, idx, done, df_part, loaded,
                   fetched, skipped, written, completed, merged, prev_completed, this_merge, prev_merge>>

\* the loop is over and OUT_DIR holds no part: warning, return
RunMergeNoParts ==
    /\ pc = "loop"
    /\ idx > Len(ranges)
    /\ Len(MergeInputs(parts)) = 0
    /\ merged' = TRUE
    /\ pc' = "done"
    /\ UNCHANGED <<fsVars, run_no, start, end, ranges, idx, done, df_part, loaded,
                   fetched, skipped, written, completed, failed_at, prev_completed,
                   this_merge, prev_merge>>

\* the loop is over: the parts are read in sorted order, concatenated,
\* deduplicated and written to the two master files
RunMergeOk ==
    /\ pc = "loop"
    /\ idx > Len(ranges)
    /\ Len(MergeInputs(parts)) > 0
    /\ \A n \in SeqRange(MergeInputs(parts)) : parts[n].state = "ok"
    /\ LET df == drop_duplicates(ConcatFiles(MergeInputs(parts), parts))
           mp == master_paths(start, end)
       IN  /\ masters' = WithFile(WithFile(masters, mp[1], Complete(df)),
                                  mp[2], Complete(df))
           /\ this_merge' = [files |-> parts, master |-> df]
    /\ merged' = TRUE
    /\ pc' = "done"
    /\ UNCHANGED <<cp_file, cp_tmp, parts, run_no, start, end, ranges, idx, done,
                   df_part, loaded, fetched, skipped, written, completed,
                   failed_at, prev_completed, prev_merge>>

\* the merge raises: read_parquet on a truncated part, or a master write
\* (nothing written, a truncated CSV, or the CSV written and not the Parquet)
RunMergeFails ==
    /\ pc = "loop"
    /\ idx > Len(ranges)
    /\ Len(MergeInputs(parts)) > 0
    /\ \/ masters' = masters
       \/ /\ \A n \in SeqRange(MergeInputs(parts)) : parts[n].state = "ok"
          /\ LET df == drop_duplicates(ConcatFiles(MergeInputs(parts), parts))
                 mp == master_paths(start, end)
             IN  \/ masters' = WithFile(masters, mp[1], Partial)
                 \/ masters' = WithFile(WithFile(masters, mp[1], Complete(df)),
                                        mp[2], Partial)
    /\ merged' = TRUE
    /\ pc' = "aborted"
    /\ UNCHANGED <<cp_file, cp_tmp, parts, run_no, start, end, ranges, idx, done,
                   df_part, loaded, fetched, skipped, written, completed,
                   failed_at, prev_completed, this_merge, prev_merge>>

\* the process is killed; a kill inside to_parquet or inside the write of
\* the temporary checkpoint file leaves what an interrupted write leaves
RunCrash ==
    /\ Running
    /\ IF pc = "write" THEN InterruptedPartWrite ELSE parts' = parts
    /\ IF pc = "cp_tmp" THEN InterruptedTmpWrite(Checkpoint(SortStrings(done)))
       ELSE UNCHANGED <<cp_file, cp_tmp>>
    /\ pc' = "crashed"
    /\ UNCHANGED <<masters, run_no, start, end, ranges, idx, done,
                   df_part, logVars>>

(***************************************************************************)
(* The checkpoint store on its own: save_checkpoint and load_checkpoint    *)
(* called in any order on the two files, with failed and killed saves and  *)
(* with the checkpoint file changed from outside between calls.            *)
(***************************************************************************)
\* the keys of two windows, and a string with a quote and a backslash
CkKey1 == WindowKey(isoformat(<<BaseYear, 1, 1>>), isoformat(<<BaseYear, 1, 31>>))

CkKey2 == WindowKey(isoformat(<<BaseYear, 2, 1>>), isoformat(<<BaseYear, 2, 10>>))

CkOddKey == <<"a", Quote, Backslash>>

\* the arguments of save_checkpoint
CheckpointArgs ==
    {Checkpoint(<<>>), Checkpoint(<<CkKey1>>), Checkpoint(<<CkKey1, CkKey2>>),
     Checkpoint(<<CkOddKey>>)}

\* what the checkpoint file may be when something else has written,
\* truncated, locked or removed it
ForeignFiles ==
    {Absent, Unreadable, Undecodable,
     TextFile(<<>>),
     TextFile(<<"{", "{">>),
     TextFile(SubSeq(json_dump(Checkpoint(<<CkKey1>>)), 1,
                     Len(json_dump(Checkpoint(<<CkKey1>>))) - 1)),
     TextFile(json_dump(PyNone)),
     TextFile(json_dump(PyList(<<>>))),
     TextFile(json_dump(PyDict(<<>>))),
     TextFile(json_dump(PyDict(<< <<DoneMonthsKey, PyNone>> >>)))}

NoCall == [op |-> "none", raised |-> "", val |-> PyNone, done |-> {}]

CallResult(op, raised, val, keys) ==
    [op |-> op, raised |-> raised, val |-> val, done |-> keys]

CkIdle ==
    /\ ck_pc = "idle"
    /\ ck_arg = PyNone
    /\ ck_prev = Absent
    /\ ck_last = PyNone
    /\ ck_foreign = FALSE
    /\ ck_ops = 0
    /\ ck_result = NoCall

\* save_checkpoint(d), lines 209-211: the temporary file is written
CkSaveWriteOk ==
    /\ ck_pc = "idle"
    /\ ck_ops < MaxCkOps
    /\ \E d \in CheckpointArgs :
          /\ SaveWriteTmp(d)
          /\ ck_arg' = d
    /\ ck_prev' = cp_file
    /\ ck_ops' = ck_ops + 1
    /\ ck_pc' = "replace"
    /\ ck_result' = NoCall
    /\ UNCHANGED <<ck_last, ck_foreign>>

\* save_checkpoint(d), lines 209-211: open or json.dump raises, or the
\* process is killed during the write
CkSaveWriteFails ==
    /\ ck_pc = "idle"
    /\ ck_ops < MaxCkOps
    /\ \E d \in CheckpointArgs :
          /\ InterruptedTmpWrite(d)
          /\ ck_arg' = d
    /\ ck_prev' = cp_file
    /\ ck_ops' = ck_ops + 1
    /\ ck_result' = CallResult("save", "OSError", PyNone, {})
    /\ UNCHANGED <<ck_pc, ck_last, ck_foreign>>

\* save_checkpoint(d), line 212: the rename, and the call returns
CkSaveReplaceOk ==
    /\ ck_pc = "replace"
    /\ SaveReplace
    /\ ck_last' = ck_arg
    /\ ck_foreign' = FALSE
    /\ ck_pc' = "idle"
    /\ ck_result' = CallResult("save", "", PyNone, {})
    /\ UNCHANGED <<ck_arg, ck_prev, ck_ops>>

\* save_checkpoint(d), line 212: the rename raises, or the process is
\* killed before it
CkSaveReplaceFails ==
    /\ ck_pc = "replace"
    /\ ck_pc' = "idle"
    /\ ck_result' = CallResult("save", "OSError", PyNone, {})
    /\ UNCHANGED <<cp_file, cp_tmp, ck_arg, ck_prev, ck_last, ck_foreign, ck_ops>>

\* load_checkpoint()
CkLoad ==
    /\ ck_pc = "idle"
    /\ LET cp == load_checkpoint(cp_file)
       IN  ck_result' = CallResult("load", cp.raised, cp.val, {})
    /\ UNCHANGED <<cp_file, cp_tmp, ck_pc, ck_arg, ck_prev, ck_last, ck_foreign, ck_ops>>

\* the start of a run, lines 257-258:
\* cp = load_checkpoint(); done = set(cp.get("done_months", []))
CkRunSetup ==
    /\ ck_pc = "idle"
    /\ LET cp == load_checkpoint(cp_file)
           dm == IF cp.raised = "" THEN done_months(cp.val) ELSE cp
       IN  ck_result' = CallResult("setup", dm.raised, cp.val,
                                   IF dm.raised = "" THEN dm.val ELSE {})
    /\ UNCHANGED <<cp_file, cp_tmp, ck_pc, ck_arg, ck_prev, ck_last, ck_foreign, ck_ops>>

\* something else changes the checkpoint file
CkForeign ==
    /\ ck_pc = "idle"
    /\ ck_ops < MaxCkOps
    /\ \E f \in ForeignFiles : cp_file' = f
    /\ ck_foreign' = TRUE
    /\ ck_ops' = ck_ops + 1
    /\ ck_result' = NoCall
    /\ UNCHANGED <<cp_tmp, ck_pc, ck_arg, ck_prev, ck_last>>

(***************************************************************************)
(* normalize_to_df called on bounded lists of raw records                  *)
(***************************************************************************)
\* a record with every field
FullRecord ==
    [id |-> PyInt(1), title |-> PyStr(<<"T">>), original_title |-> PyStr(<<"O">>),
     release_date |-> PyStr(isoformat(<<BaseYear, 1, 15>>)),
     genre_ids |-> PyList(<<PyInt(28), PyInt(99)>>),
     vote_average |-> PyInt(7), vote_count |-> PyInt(10), popularity |-> PyInt(3),
     original_language |-> PyStr(<<"e", "n">>), overview |-> PyStr(<<"o", "v">>),
     poster_path |-> PyStr(<<"/", "p">>)]

\* a record with no optional field
BareRecord == [id |-> PyInt(2)]

\* a record whose optional fields, genre_ids apart, are null
NullsRecord ==
    [id |-> PyInt(1), title |-> PyNone, original_title |-> PyNone,
     release_date |-> PyNone, vote_average |-> PyNone, vote_count |-> PyNone,
     popularity |-> PyNone, original_language |-> PyNone, overview |-> PyNone,
     poster_path |-> PyNone]

\* a record whose genre_ids is null
NullGenresRecord == [id |-> PyInt(3), genre_ids |-> PyNone]

\* a record with an empty code list and an empty poster path
EmptiesRecord ==
    [id |-> PyInt(2), genre_ids |-> PyList(<<>>), poster_path |-> PyStr(<<>>)]

\* a record with known, unknown and negative codes
CodesRecord ==
    [id |-> PyInt(4),
     genre_ids |-> PyList(<<PyInt(7), PyInt(28), PyInt(-1), PyInt(120)>>),
     poster_path |-> PyStr(<<"/", "q">>)]

NormRecords ==
    {FullRecord, BareRecord, NullsRecord, NullGenresRecord, EmptiesRecord,
     CodesRecord}

RawLists == UNION {[1..n -> NormRecords] : n \in 0..MaxRawLen}

GenreMaps ==
    {<<>>,
     [g \in {12, 28} |-> IF g = 12 THEN <<"A", "d", "v">> ELSE <<"A", "c", "t">>]}

ImageBases == {<<"h", "/">>, <<>>}

PosterSizes == {<<"w", "5", "0", "0">>}

NIdle ==
    /\ n_pc = "idle"
    /\ n_raw = <<>>
    /\ n_image_base = <<>>
    /\ n_poster_size = <<>>
    /\ n_genres_map = <<>>
    /\ n_out = Returned(EmptyFrame)

\* normalize_to_df(raw_movies, image_base, poster_size, genres_map) is called
NStart ==
    /\ n_pc = "call"
    /\ n_raw \in RawLists
    /\ n_image_base \in ImageBases
    /\ n_poster_size \in PosterSizes
    /\ n_genres_map \in GenreMaps
    /\ n_out = Returned(EmptyFrame)

\* the call returns the table
NormReturns ==
    /\ n_pc = "call"
    /\ normalize_to_df(n_raw, n_image_base, n_poster_size, n_genres_map).raised = ""
    /\ n_out' = normalize_to_df(n_raw, n_image_base, n_poster_size, n_genres_map)
    /\ n_pc' = "returned"
    /\ UNCHANGED <<n_raw, n_image_base, n_poster_size, n_genres_map>>

\* the call raises
NormRaises ==
    /\ n_pc = "call"
    /\ normalize_to_df(n_raw, n_image_base, n_poster_size, n_genres_map).raised # ""
    /\ n_out' = normalize_to_df(n_raw, n_image_base, n_poster_size, n_genres_map)
    /\ n_pc' = "raised"
    /\ UNCHANGED <<n_raw, n_image_base, n_poster_size, n_genres_map>>

(***************************************************************************)
(* run_monthly_backfill with its requests: one invocation, one step per    *)
(* attempt of a safe_get call.  The records, the tables and the files are  *)
(* left out; the checkpoint is the set of its keys.                        *)
(***************************************************************************)
\* the max_pages arguments: None, or a small limit
BMaxPages == {<<FALSE, 0>>, <<TRUE, MaxSmallPages>>}

\* total_pages values a page-1 document reports: small, or over the cap
BTotalPages == (0..MaxSmallPages) \cup {TMDB_MAX_PAGES + MaxOverCap}

\* done_months of the checkpoint on disk: empty, the first window of the
\* two-month range, both of its windows
BCheckpoints ==
    LET r == month_ranges(isoformat(<<BaseYear, 1, 15>>), isoformat(<<BaseYear, 2, 10>>))
    IN  {{}, {WindowKey(r[1][1], r[1][2])},
         {WindowKey(r[1][1], r[1][2]), WindowKey(r[2][1], r[2][2])}}

NoRequest == [path |-> "none", w |-> 0, p |-> 0, attempt |-> 0, raised |-> ""]

BIdle ==
    /\ b_pc = "idle"
    /\ b_start = <<>>
    /\ b_end = <<>>
    /\ b_has_max = FALSE
    /\ b_max_pages = 0
    /\ b_cp = {}
    /\ b_ranges = <<>>
    /\ b_idx = 0
    /\ b_done = {}
    /\ b_total_pages = 0
    /\ b_p = 0
    /\ b_attempt = 0
    /\ b_req = NoRequest
    /\ b_calls = [config |-> 0, genres |-> 0]
    /\ b_pages = 0
    /\ b_visits = <<>>

\* the call: run_monthly_backfill(start, end, ..., max_pages); the first
\* statement is the safe_get call of get_image_base_and_size
BStart ==
    /\ b_pc = "config"
    /\ \E a \in RunArgs :
          /\ b_start = isoformat(a[1])
          /\ b_end = isoformat(a[2])
    /\ \E m \in BMaxPages :
          /\ b_has_max = m[1]
          /\ b_max_pages = m[2]
    /\ b_cp \in BCheckpoints
    /\ b_ranges = month_ranges(b_start, b_end)
    /\ b_idx = 0
    /\ b_done = {}
    /\ b_total_pages = 0
    /\ b_p = 0
    /\ b_attempt = 0
    /\ b_req = NoRequest
    /\ b_calls = [config |-> 0, genres |-> 0]
    /\ b_pages = 0
    /\ b_visits = <<>>

\* a safe_get call is running
InSafeGet == b_pc \in {"config", "genres", "first", "pages"}

\* the endpoint of the running safe_get call
BPath == IF b_pc \in {"first", "pages"} THEN "discover" ELSE b_pc

BCurKey == WindowKey(b_ranges[b_idx][1], b_ranges[b_idx][2])

\* the wait safe_get computes after outcome o (it is called with the
\* default backoff_base)
BWait(o) ==
    IF OutcomeClass(o) = "429"
    THEN RateLimitWait(o.has_ra, o.ra, DefaultBackoffBase, b_attempt)
    ELSE Backoff(DefaultBackoffBase, b_attempt)

\* the outcomes after which safe_get sleeps and tries again: a transport
\* error, a 429, a 5xx
Retryable == {o \in Responses \cup {TransportError} : OutcomeClass(o) \in {"exc", "429", "5xx"}}

\* resp = SESSION.get(url, params=params, timeout=25) inside
\* for attempt in range(max_retries), max_retries being the default; raised
\* is the exception that the outcome makes safe_get raise, if any
BRequest(raised) ==
    /\ InSafeGet
    /\ b_attempt < DefaultMaxRetries
    /\ b_req' = [path |-> BPath, w |-> b_idx, p |-> b_p, attempt |-> b_attempt,
                 raised |-> raised]
    /\ b_calls' = IF b_attempt = 0 /\ BPath # "discover"
                  THEN [b_calls EXCEPT ![BPath] = @ + 1] ELSE b_calls
    /\ b_pages' = IF b_attempt = 0 /\ BPath = "discover"
                  THEN b_pages + 1 ELSE b_pages

\* a transport error, a 429 or a 5xx: the wait is slept, then `continue`
BRetry ==
    /\ BRequest("")
    /\ {o \in Retryable : ~SleepRaises(BWait(o))} # {}
    /\ b_attempt' = b_attempt + 1
    /\ UNCHANGED <<b_pc, b_start, b_end, b_has_max, b_max_pages, b_cp, b_ranges,
                   b_idx, b_done, b_total_pages, b_p, b_visits>>

\* a 429 whose Retry-After is negative: time.sleep raises ValueError, which
\* leaves safe_get and the invocation
BSleepRaises ==
    /\ BRequest("ValueError")
    /\ {o \in Retryable : SleepRaises(BWait(o))} # {}
    /\ b_pc' = "aborted"
    /\ UNCHANGED <<b_start, b_end, b_has_max, b_max_pages, b_cp, b_ranges, b_idx,
                   b_done, b_total_pages, b_p, b_attempt, b_visits>>

\* any other status: RuntimeError leaves safe_get and the invocation
BOtherStatus ==
    /\ BRequest("RuntimeError")
    /\ {o \in Responses : OutcomeClass(o) = "other"} # {}
    /\ b_pc' = "aborted"
    /\ UNCHANGED <<b_start, b_end, b_has_max, b_max_pages, b_cp, b_ranges, b_idx,
                   b_done, b_total_pages, b_p, b_attempt, b_visits>>

\* the for loop of safe_get ends: RuntimeError("Max retries exceeded ...")
BExhausted ==
    /\ InSafeGet
    /\ ~(b_attempt < DefaultMaxRetries)
    /\ b_pc' = "aborted"
    /\ UNCHANGED <<b_start, b_end, b_has_max, b_max_pages, b_cp, b_ranges, b_idx,
                   b_done, b_total_pages, b_p, b_attempt, b_req, b_calls, b_pages,
                   b_visits>>

\* get_image_base_and_size: safe_get("/configuration") returns; the next
\* statement is the safe_get call of get_genre_map
BConfigOk ==
    /\ b_pc = "config"
    /\ BRequest("")
    /\ {o \in Responses : OutcomeClass(o) = "200"} # {}
    /\ b_pc' = "genres"
    /\ b_attempt' = 0
    /\ UNCHANGED <<b_start, b_end, b_has_max, b_max_pages, b_cp, b_ranges, b_idx,
                   b_done, b_total_pages, b_p, b_visits>>

\* get_genre_map: safe_get("/genre/movie/list") returns
BGenresOk ==
    /\ b_pc = "genres"
    /\ BRequest("")
    /\ {o \in Responses : OutcomeClass(o) = "200"} # {}
    /\ b_pc' = "setup"
    /\ b_attempt' = 0
    /\ UNCHANGED <<b_start, b_end, b_has_max, b_max_pages, b_cp, b_ranges, b_idx,
                   b_done, b_total_pages, b_p, b_visits>>

\* ranges = month_ranges(start, end); cp = load_checkpoint();
\* done = set(cp.get("done_months", [])); the loop starts
BSetup ==
    /\ b_pc = "setup"
    /\ b_done' = b_cp
    /\ b_idx' = 1
    /\ b_visits' = [i \in DOMAIN b_ranges |-> 0]
    /\ b_pc' = "loop"
    /\ UNCHANGED <<b_start, b_end, b_has_max, b_max_pages, b_cp, b_ranges,
                   b_total_pages, b_p, b_attempt, b_req, b_calls, b_pages>>

\* for a, b in ranges: if key in done: continue
BSkip ==
    /\ b_pc = "loop"
    /\ b_idx <= Len(b_ranges)
    /\ IsDone(BCurKey, b_done)
    /\ b_visits' = [b_visits EXCEPT ![b_idx] = @ + 1]
    /\ b_idx' = b_idx + 1
    /\ UNCHANGED <<b_pc, b_start, b_end, b_has_max, b_max_pages, b_cp, b_ranges,
                   b_done, b_total_pages, b_p, b_attempt, b_req, b_calls, b_pages>>

\* for a, b in ranges: discover_all(a, b, ...) is called; params["page"] = 1
\* and safe_get is called
BEnter ==
    /\ b_pc = "loop"
    /\ b_idx <= Len(b_ranges)
    /\ ~IsDone(BCurKey, b_done)
    /\ b_visits' = [b_visits EXCEPT ![b_idx] = @ + 1]
    /\ b_p' = 1
    /\ b_total_pages' = 0
    /\ b_attempt' = 0
    /\ b_pages' = 0
    /\ b_pc' = "first"
    /\ UNCHANGED <<b_start, b_end, b_has_max, b_max_pages, b_cp, b_ranges, b_idx,
                   b_done, b_req, b_calls>>

\* first = safe_get(..., page 1) returns; the caps are applied; the for loop
\* over the pages is entered when total_pages >= 2
BFirstOk ==
    /\ b_pc = "first"
    /\ BRequest("")
    /\ {o \in Responses : OutcomeClass(o) = "200"} # {}
    /\ \E has_total \in BOOLEAN, total \in BTotalPages :
          LET reported == IF has_total THEN total ELSE 1
              capped   == IF OverCap(reported) THEN TMDB_MAX_PAGES ELSE reported
              limited  == ApplyMaxPages(capped, b_has_max, b_max_pages)
          IN  /\ has_total \/ total = 0
              /\ b_total_pages' = limited
              /\ b_pc' = IF limited >= 2 THEN "pages" ELSE "persist"
    /\ b_p' = 2
    /\ b_attempt' = 0
    /\ UNCHANGED <<b_start, b_end, b_has_max, b_max_pages, b_cp, b_ranges, b_idx,
                   b_done, b_visits>>

\* for p in range(2, total_pages + 1): safe_get(..., page p) returns
BPageOk ==
    /\ b_pc = "pages"
    /\ b_p <= b_total_pages
    /\ BRequest("")
    /\ {o \in Responses : OutcomeClass(o) = "200"} # {}
    /\ b_p' = b_p + 1
    /\ b_attempt' = 0
    /\ b_pc' = IF b_p + 1 <= b_total_pages THEN "pages" ELSE "persist"
    /\ UNCHANGED <<b_start, b_end, b_has_max, b_max_pages, b_cp, b_ranges, b_idx,
                   b_done, b_total_pages, b_visits>>

\* the part is built and written, done.add(key), save_checkpoint returns
BPersistOk ==
    /\ b_pc = "persist"
    /\ b_done' = b_done \cup {BCurKey}
    /\ b_idx' = b_idx + 1
    /\ b_pc' = "loop"
    /\ UNCHANGED <<b_start, b_end, b_has_max, b_max_pages, b_cp, b_ranges,
                   b_total_pages, b_p, b_attempt, b_req, b_calls, b_pages, b_visits>>

\* normalize_to_df, to_parquet or save_checkpoint raises: log.exception, raise
BPersistFails ==
    /\ b_pc = "persist"
    /\ b_pc' = "aborted"
    /\ UNCHANGED <<b_start, b_end, b_has_max, b_max_pages, b_cp, b_ranges, b_idx,
                   b_done, b_total_pages, b_p, b_attempt, b_req, b_calls, b_pages,
                   b_visits>>

\* the loop is over: the merge returns
BMergeOk ==
    /\ b_pc = "loop"
    /\ b_idx > Len(b_ranges)
    /\ b_pc' = "done"
    /\ UNCHANGED <<b_start, b_end, b_has_max, b_max_pages, b_cp, b_ranges, b_idx,
                   b_done, b_total_pages, b_p, b_attempt, b_req, b_calls, b_pages,
                   b_visits>>

\* the loop is over: the merge raises
BMergeFails ==
    /\ b_pc = "loop"
    /\ b_idx > Len(b_ranges)
    /\ b_pc' = "aborted"
    /\ UNCHANGED <<b_start, b_end, b_has_max, b_max_pages, b_cp, b_ranges, b_idx,
                   b_done, b_total_pages, b_p, b_attempt, b_req, b_calls, b_pages,
                   b_visits>>

(***************************************************************************)
(* discover_all of src/movie.py (the older script), one step per safe_get  *)
(* call.  It is called once the discover_all call of src/src/movie.py has  *)
(* returned, with the same max_pages, and the provider answers it as it    *)
(* answered that call: d_reported is what first.get("total_pages", 1)      *)
(* yields and PageResults(d_catalog, p) are the results of page p.         *)
(***************************************************************************)
OIdle ==
    /\ o_pc = "idle"
    /\ o_total_pages = 0
    /\ o_p = 0
    /\ o_requested = <<>>
    /\ o_movies = <<>>

\* first = safe_get(..., page 1) returns; total_pages is limited by
\* max_pages alone; page 1's results start the list
OFirstOk ==
    /\ d_pc = "returned"
    /\ o_pc = "idle"
    /\ o_total_pages' = ApplyMaxPages(d_reported, d_has_max, d_max_pages)
    /\ o_pc' = IF ApplyMaxPages(d_reported, d_has_max, d_max_pages) >= 2
               THEN "pages" ELSE "returned"
    /\ o_requested' = <<1>>
    /\ o_movies' = PageResults(d_catalog, 1)
    /\ o_p' = 2

\* one iteration of: for p in range(2, total_pages + 1)
OPageOk ==
    /\ o_pc = "pages"
    /\ o_p <= o_total_pages
    /\ o_requested' = Append(o_requested, o_p)
    /\ o_movies' = o_movies \o PageResults(d_catalog, o_p)
    /\ o_p' = o_p + 1
    /\ o_pc' = IF o_p + 1 <= o_total_pages THEN "pages" ELSE "returned"
    /\ UNCHANGED o_total_pages

\* the provider rejects a page past its cap: safe_get raises RuntimeError
OPageRejected ==
    /\ o_pc = "pages"
    /\ o_p <= o_total_pages
    /\ o_p > TMDB_MAX_PAGES
    /\ o_requested' = Append(o_requested, o_p)
    /\ o_pc' = "raised"
    /\ UNCHANGED <<o_total_pages, o_p, o_movies>>

(***************************************************************************)
(* Specifications                                                          *)
(***************************************************************************)
MRInit == MRStart /\ SGIdle /\ DIdle /\ RunIdle /\ CkIdle /\ NIdle /\ BIdle /\ OIdle

MRNext == MRCall /\ UNCHANGED <<oVars, bVars, sgVars, dVars, fsVars, runVars, logVars, ckVars, nVars>>

SpecMR == MRInit /\ [][MRNext]_vars

SGInit == SGStart /\ MRIdle /\ DIdle /\ RunIdle /\ CkIdle /\ NIdle /\ BIdle /\ OIdle

SGNext ==
    \/ SGTransportError /\ UNCHANGED <<oVars, bVars, mrVars, dVars, fsVars, runVars, logVars, ckVars, nVars>>
    \/ SGOk /\ UNCHANGED <<oVars, bVars, mrVars, dVars, fsVars, runVars, logVars, ckVars, nVars>>
    \/ SGRateLimited /\ UNCHANGED <<oVars, bVars, mrVars, dVars, fsVars, runVars, logVars, ckVars, nVars>>
    \/ SGServerError /\ UNCHANGED <<oVars, bVars, mrVars, dVars, fsVars, runVars, logVars, ckVars, nVars>>
    \/ SGOtherStatus /\ UNCHANGED <<oVars, bVars, mrVars, dVars, fsVars, runVars, logVars, ckVars, nVars>>
    \/ SGExhausted /\ UNCHANGED <<oVars, bVars, mrVars, dVars, fsVars, runVars, logVars, ckVars, nVars>>

SpecGet == SGInit /\ [][SGNext]_vars

DInit == DStart /\ MRIdle /\ SGIdle /\ RunIdle /\ CkIdle /\ NIdle /\ BIdle /\ OIdle

DNext ==
    \/ DFirstOk /\ UNCHANGED <<oVars, bVars, mrVars, sgVars, fsVars, runVars, logVars, ckVars, nVars>>
    \/ DFirstFails /\ UNCHANGED <<oVars, bVars, mrVars, sgVars, fsVars, runVars, logVars, ckVars, nVars>>
    \/ DPageOk /\ UNCHANGED <<oVars, bVars, mrVars, sgVars, fsVars, runVars, logVars, ckVars, nVars>>
    \/ DPageFails /\ UNCHANGED <<oVars, bVars, mrVars, sgVars, fsVars, runVars, logVars, ckVars, nVars>>

SpecDisc == DInit /\ [][DNext]_vars

CkInit == RunIdle /\ MRIdle /\ SGIdle /\ DIdle /\ CkIdle /\ NIdle /\ BIdle /\ OIdle

CkNext ==
    \/ CkSaveWriteOk /\ UNCHANGED <<oVars, bVars, mrVars, sgVars, dVars, parts, masters, runVars, logVars, nVars>>
    \/ CkSaveWriteFails /\ UNCHANGED <<oVars, bVars, mrVars, sgVars, dVars, parts, masters, runVars, logVars, nVars>>
    \/ CkSaveReplaceOk /\ UNCHANGED <<oVars, bVars, mrVars, sgVars, dVars, parts, masters, runVars, logVars, nVars>>
    \/ CkSaveReplaceFails /\ UNCHANGED <<oVars, bVars, mrVars, sgVars, dVars, parts, masters, runVars, logVars, nVars>>
    \/ CkLoad /\ UNCHANGED <<oVars, bVars, mrVars, sgVars, dVars, parts, masters, runVars, logVars, nVars>>
    \/ CkRunSetup /\ UNCHANGED <<oVars, bVars, mrVars, sgVars, dVars, parts, masters, runVars, logVars, nVars>>
    \/ CkForeign /\ UNCHANGED <<oVars, bVars, mrVars, sgVars, dVars, parts, masters, runVars, logVars, nVars>>

SpecCp == CkInit /\ [][CkNext]_vars

NInit == NStart /\ RunIdle /\ MRIdle /\ SGIdle /\ DIdle /\ CkIdle /\ BIdle /\ OIdle

NNext ==
    \/ NormReturns /\ UNCHANGED <<oVars, bVars, mrVars, sgVars, dVars, fsVars, runVars, logVars, ckVars>>
    \/ NormRaises /\ UNCHANGED <<oVars, bVars, mrVars, sgVars, dVars, fsVars, runVars, logVars, ckVars>>

SpecNorm == NInit /\ [][NNext]_vars

Init == RunIdle /\ MRIdle /\ SGIdle /\ DIdle /\ CkIdle /\ NIdle /\ BIdle /\ OIdle

Next ==
    \/ RunStart /\ UNCHANGED <<oVars, bVars, mrVars, sgVars, dVars, ckVars, nVars>>
    \/ RunConfigOk /\ UNCHANGED <<oVars, bVars, mrVars, sgVars, dVars, ckVars, nVars>>
    \/ RunGenresOk /\ UNCHANGED <<oVars, bVars, mrVars, sgVars, dVars, ckVars, nVars>>
    \/ RunMetadataFails /\ UNCHANGED <<oVars, bVars, mrVars, sgVars, dVars, ckVars, nVars>>
    \/ RunSetup /\ UNCHANGED <<oVars, bVars, mrVars, sgVars, dVars, ckVars, nVars>>
    \/ RunSkip /\ UNCHANGED <<oVars, bVars, mrVars, sgVars, dVars, ckVars, nVars>>
    \/ RunDiscoverOk /\ UNCHANGED <<oVars, bVars, mrVars, sgVars, dVars, ckVars, nVars>>
    \/ RunDiscoverFails /\ UNCHANGED <<oVars, bVars, mrVars, sgVars, dVars, ckVars, nVars>>
    \/ RunWritePartOk /\ UNCHANGED <<oVars, bVars, mrVars, sgVars, dVars, ckVars, nVars>>
    \/ RunWritePartFails /\ UNCHANGED <<oVars, bVars, mrVars, sgVars, dVars, ckVars, nVars>>
    \/ RunSaveTmpOk /\ UNCHANGED <<oVars, bVars, mrVars, sgVars, dVars, ckVars, nVars>>
    \/ RunSaveTmpFails /\ UNCHANGED <<oVars, bVars, mrVars, sgVars, dVars, ckVars, nVars>>
    \/ RunSaveReplaceOk /\ UNCHANGED <<oVars, bVars, mrVars, sgVars, dVars, ckVars, nVars>>
    \/ RunSaveReplaceFails /\ UNCHANGED <<oVars, bVars, mrVars, sgVars, dVars, ckVars, nVars>>
    \/ RunMergeNoParts /\ UNCHANGED <<oVars, bVars, mrVars, sgVars, dVars, ckVars, nVars>>
    \/ RunMergeOk /\ UNCHANGED <<oVars, bVars, mrVars, sgVars, dVars, ckVars, nVars>>
    \/ RunMergeFails /\ UNCHANGED <<oVars, bVars, mrVars, sgVars, dVars, ckVars, nVars>>
    \/ RunCrash /\ UNCHANGED <<oVars, bVars, mrVars, sgVars, dVars, ckVars, nVars>>

Spec == Init /\ [][Next]_vars

BInit == BStart /\ MRIdle /\ SGIdle /\ DIdle /\ RunIdle /\ CkIdle /\ NIdle /\ OIdle

BNext ==
    \/ BRetry /\ UNCHANGED <<oVars, mrVars, sgVars, dVars, fsVars, runVars, logVars, ckVars, nVars>>
    \/ BSleepRaises /\ UNCHANGED <<oVars, mrVars, sgVars, dVars, fsVars, runVars, logVars, ckVars, nVars>>
    \/ BOtherStatus /\ UNCHANGED <<oVars, mrVars, sgVars, dVars, fsVars, runVars, logVars, ckVars, nVars>>
    \/ BExhausted /\ UNCHANGED <<oVars, mrVars, sgVars, dVars, fsVars, runVars, logVars, ckVars, nVars>>
    \/ BConfigOk /\ UNCHANGED <<oVars, mrVars, sgVars, dVars, fsVars, runVars, logVars, ckVars, nVars>>
    \/ BGenresOk /\ UNCHANGED <<oVars, mrVars, sgVars, dVars, fsVars, runVars, logVars, ckVars, nVars>>
    \/ BSetup /\ UNCHANGED <<oVars, mrVars, sgVars, dVars, fsVars, runVars, logVars, ckVars, nVars>>
    \/ BSkip /\ UNCHANGED <<oVars, mrVars, sgVars, dVars, fsVars, runVars, logVars, ckVars, nVars>>
    \/ BEnter /\ UNCHANGED <<oVars, mrVars, sgVars, dVars, fsVars, runVars, logVars, ckVars, nVars>>
    \/ BFirstOk /\ UNCHANGED <<oVars, mrVars, sgVars, dVars, fsVars, runVars, logVars, ckVars, nVars>>
    \/ BPageOk /\ UNCHANGED <<oVars, mrVars, sgVars, dVars, fsVars, runVars, logVars, ckVars, nVars>>
    \/ BPersistOk /\ UNCHANGED <<oVars, mrVars, sgVars, dVars, fsVars, runVars, logVars, ckVars, nVars>>
    \/ BPersistFails /\ UNCHANGED <<oVars, mrVars, sgVars, dVars, fsVars, runVars, logVars, ckVars, nVars>>
    \/ BMergeOk /\ UNCHANGED <<oVars, mrVars, sgVars, dVars, fsVars, runVars, logVars, ckVars, nVars>>
    \/ BMergeFails /\ UNCHANGED <<oVars, mrVars, sgVars, dVars, fsVars, runVars, logVars, ckVars, nVars>>

SpecBackfill == BInit /\ [][BNext]_vars

\* every step that can be taken is taken in the end: the interpreter goes on,
\* a request is answered or fails, a sleep returns
SpecBackfillFair == BInit /\ [][BNext]_vars /\ WF_vars(BNext)

\* the two discover_all functions, one call after the other
DupInit == DStart /\ MRIdle /\ SGIdle /\ RunIdle /\ CkIdle /\ NIdle /\ BIdle /\ OIdle

DupNext ==
    \/ DFirstOk /\ UNCHANGED <<mrVars, sgVars, fsVars, runVars, logVars, ckVars, nVars, bVars, oVars>>
    \/ DPageOk /\ UNCHANGED <<mrVars, sgVars, fsVars, runVars, logVars, ckVars, nVars, bVars, oVars>>
    \/ OFirstOk /\ UNCHANGED <<mrVars, sgVars, dVars, fsVars, runVars, logVars, ckVars, nVars, bVars>>
    \/ OPageOk /\ UNCHANGED <<mrVars, sgVars, dVars, fsVars, runVars, logVars, ckVars, nVars, bVars>>
    \/ OPageRejected /\ UNCHANGED <<mrVars, sgVars, dVars, fsVars, runVars, logVars, ckVars, nVars, bVars>>

SpecDup == DupInit /\ [][DupNext]_vars

(***************************************************************************)
(* Properties of month_ranges                                              *)
(***************************************************************************)
RECURSIVE DaysBeforeYear(_)
DaysBeforeYear(y) ==
    IF y <= BaseYear THEN 0
    ELSE DaysBeforeYear(y - 1) + (IF IsLeap(y - 1) THEN 366 ELSE 365)

RECURSIVE DaysBeforeMonth(_, _)
DaysBeforeMonth(y, m) ==
    IF m <= 1 THEN 0 ELSE DaysBeforeMonth(y, m - 1) + DaysInMonth(y, m - 1)

\* the number of the day, counted from 1 January of BaseYear
Ord(d) == DaysBeforeYear(d[1]) + DaysBeforeMonth(d[1], d[2]) + d[3]

WindowDays(w) == Ord(to_date(w[1])) .. Ord(to_date(w[2]))

CoveredDays(out) == UNION {WindowDays(out[i]) : i \in DOMAIN out}

Contiguous(out) ==
    \A i \in 1..(Len(out) - 1) :
        Ord(to_date(out[i + 1][1])) = Ord(to_date(out[i][2])) + 1

\* two inclusive windows share no day
Disjoint(v, w) ==
    \/ Ord(to_date(v[2])) < Ord(to_date(w[1]))
    \/ Ord(to_date(w[2])) < Ord(to_date(v[1]))

NonOverlapping(out) ==
    \A i, j \in DOMAIN out : i < j => Disjoint(out[i], out[j])

RequestedDays == Ord(to_date(mr_start)) .. Ord(to_date(mr_end))

\* the days from day 1 of start's month to end
FlooredDays ==
    Ord(<<to_date(mr_start)[1], to_date(mr_start)[2], 1>>) .. Ord(to_date(mr_end))

\* C4 as stated: the windows are contiguous, pairwise non-overlapping and
\* their union is exactly the set of days of [start, end].
C4_ExactCover ==
    mr_pc = "done" =>
        /\ Contiguous(mr_out)
        /\ NonOverlapping(mr_out)
        /\ CoveredDays(mr_out) = RequestedDays

\* C4 amended: the windows are contiguous, pairwise non-overlapping and
\* their union is exactly the set of days from day 1 of start's month to end:
\* every requested day is covered, no day after end is covered, and the only
\* covered days outside [start, end] are the days of start's month before start.
C4_FlooredCover ==
    mr_pc = "done" =>
        /\ Contiguous(mr_out)
        /\ NonOverlapping(mr_out)
        /\ CoveredDays(mr_out) = FlooredDays
        /\ RequestedDays \subseteq CoveredDays(mr_out)

C4_Witness ==
    /\ mr_pc = "done"
    /\ Len(mr_out) >= 3
    /\ to_date(mr_start)[3] = 15
    /\ to_date(mr_end)[3] = 1

\* the k-th calendar month (k = 0, 1, ...) counted from start's month
MonthAt(k) ==
    LET s == to_date(mr_start)
        n == (s[2] - 1) + k
    IN  <<s[1] + (n \div 12), (n % 12) + 1>>

MonthsTouched ==
    LET s == to_date(mr_start)
        e == to_date(mr_end)
    IN  (e[1] - s[1]) * 12 + (e[2] - s[2]) + 1

\* C5: month_ranges returns, in chronological order, exactly one window per
\* calendar month touched by [start, end]; every window starts on day 1 of its
\* month (also the first one when start is mid-month) and ends on the last day
\* of that month, except the last window, which ends on end itself.
C5_OneWindowPerMonth ==
    mr_pc = "done" =>
        /\ Len(mr_out) = MonthsTouched
        /\ \A i \in DOMAIN mr_out :
              LET ym == MonthAt(i - 1)
              IN  /\ mr_out[i][1] = isoformat(<<ym[1], ym[2], 1>>)
                  /\ mr_out[i][2] =
                        IF i < Len(mr_out)
                        THEN isoformat(<<ym[1], ym[2], DaysInMonth(ym[1], ym[2])>>)
                        ELSE mr_end

C5_Witness ==
    /\ mr_pc = "done"
    /\ Len(mr_out) = 13
    /\ to_date(mr_start)[3] = 28
    /\ to_date(mr_end) = <<BaseYear + 1, to_date(mr_start)[2], 15>>

(***************************************************************************)
(* Properties of safe_get                                                  *)
(***************************************************************************)
RetryableClasses == {"exc", "429", "5xx"}

AllRetryable == \A i \in DOMAIN sg_hist : sg_hist[i] \in RetryableClasses

SGEnded == sg_pc \in {"returned", "raised"}

\* C6: safe_get issues at most max_retries requests; it returns the body of
\* the first 200 response when every earlier attempt was a transport error, a
\* 429 or a 5xx, so that these failures are invisible to the caller; and it
\* raises "Max retries exceeded" exactly when all max_retries attempts were
\* such retryable failures.
C6_TransientFailuresAbsorbed ==
    /\ sg_requests <= sg_max_retries
    /\ SGEnded =>
        /\ (Len(sg_hist) > 0 /\ sg_hist[Len(sg_hist)] = "200") =>
              /\ sg_pc = "returned"
              /\ sg_result = [kind |-> "json", status |-> 200, body |-> sg_last.body]
        /\ (sg_result.kind = "MaxRetries") <=>
              (Len(sg_hist) = sg_max_retries /\ AllRetryable)
        /\ AllRetryable => sg_result.kind = "MaxRetries"

\* a status other than 200, 429 and 5xx
IsOtherStatus(o) ==
    /\ o.kind = "resp"
    /\ o.status \notin {200, 429}
    /\ ~(o.status \in 500..599)

\* C7: a response with a status other than 200, 429 and 5xx makes safe_get
\* fail at once with an error carrying the status code and the body text,
\* whatever the attempt index: it is the last request of the call and no
\* backoff wait is performed for it.
C7_OtherStatusFailsAtOnce ==
    /\ IsOtherStatus(sg_last) =>
          /\ sg_pc = "raised"
          /\ sg_result = [kind |-> "HTTP", status |-> sg_last.status,
                          body |-> sg_last.body]
          /\ sg_requests = Len(sg_hist)
          /\ sg_sleeps = Len(sg_hist) - 1
    /\ \A i \in DOMAIN sg_hist : sg_hist[i] = "other" => i = Len(sg_hist)

C7_Witness ==
    /\ sg_pc = "raised"
    /\ sg_result = [kind |-> "HTTP", status |-> 404, body |-> "bodyB"]
    /\ sg_hist = <<"429", "exc", "other">>
    /\ sg_sleeps = 2

\* the wait the claim states for the failed attempt with 0-based index i
StatedWait(o, i) ==
    IF o.kind = "resp" /\ o.status = 429 /\ o.has_ra /\ IntParses(o.ra)
    THEN IntValue(o.ra)
    ELSE sg_backoff_base * Pow2(i)

\* C8: the wait after the failed attempt with index i is backoff_base * 2^i
\* for a transport error and a 5xx; for a 429 it is the Retry-After value
\* when the header is present and parseable and backoff_base * 2^i otherwise;
\* the wait is always a non-negative duration, so a retryable failure never
\* turns into a different error.
C8_WaitIsValidBackoff ==
    (sg_last.kind = "exc" \/ (sg_last.kind = "resp" /\ sg_last.status = 429)
        \/ (sg_last.kind = "resp" /\ sg_last.status \in 500..599)) =>
        /\ sg_wait = StatedWait(sg_last, Len(sg_hist) - 1)
        /\ sg_wait >= 0
        /\ sg_result.kind \in {"none", "MaxRetries"}

(***************************************************************************)
(* Properties of discover_all                                              *)
(***************************************************************************)
Min2(a, b) == IF a < b THEN a ELSE b

Max2(a, b) == IF a > b THEN a ELSE b

\* N = min(total_pages, 500, max_pages or unlimited)
StatedPageCount ==
    LET capped == Min2(d_reported, 500)
    IN  IF d_has_max /\ d_max_pages # 0 THEN Min2(capped, d_max_pages) ELSE capped

OneTo(n) == [i \in 1..n |-> i]

RECURSIVE ResultsOfPages(_, _)
\* the results of the pages 1..n, concatenated
ResultsOfPages(catalog, n) ==
    IF n <= 0 THEN <<>>
    ELSE ResultsOfPages(catalog, n - 1) \o PageResults(catalog, n)

\* C9 as stated: discover_all requests exactly the pages 1..N, each once,
\* N = min(total_pages, 500, max_pages or unlimited), and returns the
\* concatenation of the results of exactly those pages.
C9_PagesOneToN ==
    d_pc = "returned" =>
        /\ d_requested = OneTo(StatedPageCount)
        /\ d_movies = ResultsOfPages(d_catalog, StatedPageCount)

\* C9 amended: page 1 is always requested (it is the request that reports
\* total_pages), so discover_all requests exactly the pages 1..max(1, N), each
\* once and in ascending order, and returns the concatenation of the results
\* of exactly those pages; while it runs, the pages requested so far are 1..k
\* for some k <= max(1, N).
C9_PagesOneToMaxOneN ==
    /\ d_requested = OneTo(Len(d_requested))
    /\ d_got_first => Len(d_requested) <= Max2(1, StatedPageCount)
    /\ d_pc = "returned" =>
          /\ d_requested = OneTo(Max2(1, StatedPageCount))
          /\ d_movies = ResultsOfPages(d_catalog, Max2(1, StatedPageCount))

C9_Witness ==
    /\ d_pc = "returned"
    /\ d_has_max
    /\ d_max_pages = 2
    /\ d_reported = TMDB_MAX_PAGES + 1
    /\ d_catalog = "overlap"
    /\ d_movies = <<1, 2, 2, 3>>

\* C10: the page-cap warning is reported if and only if the page-1 response
\* reports total_pages > 500, and it is not fatal: the call goes on, fails
\* only if a later page's request fails, and otherwise returns after fetching
\* the capped number of pages.
C10_CapWarning ==
    /\ d_warnings = (IF d_got_first /\ d_reported > 500 THEN 1 ELSE 0)
    /\ d_warnings > 0 =>
          /\ d_pc \in {"pages", "returned", "raised"}
          /\ d_pc = "raised" => d_failed >= 2
          /\ d_pc = "returned" =>
                Len(d_requested) =
                    (IF d_has_max /\ d_max_pages # 0
                     THEN Max2(1, Min2(500, d_max_pages)) ELSE 500)

C10_Witness ==
    /\ d_warnings = 1
    /\ d_pc = "returned"
    /\ Len(d_requested) = 500
    /\ ~d_has_max

(***************************************************************************)
(* Properties of run_monthly_backfill                                      *)
(***************************************************************************)
\* every window of every range the invocations are drawn from
AllWindows ==
    UNION { SeqRange(month_ranges(isoformat(a[1]), isoformat(a[2]))) : a \in RunArgs }

\* the keys of the persisted checkpoint
CpKeys ==
    LET cp == load_checkpoint(cp_file)
        dm == IF cp.raised = "" THEN done_months(cp.val) ELSE cp
    IN  IF dm.raised = "" THEN dm.val ELSE {}

\* the window's partial artifact file has been written successfully
PartWritten(w) ==
    /\ part_filename(w[1], w[2]) \in DOMAIN parts
    /\ parts[part_filename(w[1], w[2])].state = "ok"

KeysOf(rs) == [i \in DOMAIN rs |-> WindowKey(rs[i][1], rs[i][2])]

IsPrefix(q, r) == Len(q) <= Len(r) /\ q = SubSeq(r, 1, Len(q))

\* the keys of rs that are not in the loaded checkpoint, in order
NotLoadedOf(rs) ==
    LET NotLoaded(k) == k \notin loaded IN SelectSeq(KeysOf(rs), NotLoaded)

\* the keys of rs that are in the loaded checkpoint, in order
LoadedOf(rs) ==
    LET Loaded(k) == k \in loaded IN SelectSeq(KeysOf(rs), Loaded)

\* C1: when the processing of a window fails (discover_all, the artifact write
\* or the checkpoint save raises) the run aborts at once: no later window is
\* fetched and the merge step is not executed; every window completed earlier
\* in the run is in the persisted checkpoint, and the next invocation over the
\* same range loads, skips and does not fetch each of them.
C1_AbortKeepsProgress ==
    LET persisted == CpKeys
    IN  /\ failed_at # 0 =>
              /\ pc = "aborted"
              /\ ~merged
              /\ fetched = NotLoadedOf(SubSeq(ranges, 1, failed_at))
              /\ completed = SeqRange(fetched) \ {KeysOf(ranges)[failed_at]}
              /\ completed \subseteq persisted
        /\ \A k \in prev_completed :
              /\ k \in persisted
              /\ k \notin SeqRange(fetched)
              /\ idx > 0 => k \in loaded
              /\ \A i \in DOMAIN ranges :
                    (KeysOf(ranges)[i] = k /\ idx > i) => k \in SeqRange(skipped)

C1_Witness ==
    /\ run_no = 2
    /\ prev_completed # {}
    /\ failed_at = 3
    /\ Len(skipped) = 1
    /\ Len(fetched) = 2
    /\ pc = "aborted"

\* C2 as stated: in every reachable state a window key is in the persisted
\* checkpoint if and only if the window's partial artifact file has been
\* written successfully.
C2_CheckpointIffArtifact ==
    \A w \in AllWindows : (WindowKey(w[1], w[2]) \in CpKeys) <=> PartWritten(w)

\* C2 amended: in every reachable state, the states between the steps of one
\* window and the states left by an abort or a crash included, every key in
\* the persisted checkpoint is the key of a window whose partial artifact file
\* has been written successfully (an artifact may exist without its key:
\* between to_parquet and save_checkpoint, and after a failure there).
C2_CheckpointImpliesArtifact ==
    \A k \in CpKeys :
        \E w \in AllWindows : k = WindowKey(w[1], w[2]) /\ PartWritten(w)

C2_Witness ==
    /\ pc = "crashed"
    /\ Cardinality(CpKeys) = 1
    /\ \E w \in AllWindows : PartWritten(w) /\ WindowKey(w[1], w[2]) \notin CpKeys
    /\ cp_tmp.state = "text"
    /\ ~json_load(cp_tmp.data).ok

\* C3: whatever checkpoint was loaded and whatever the range, the run calls
\* discover_all and writes an artifact for exactly the windows whose key is
\* not in the loaded done_months, in order, and for no window whose key is in
\* it: at every moment the fetched windows are the first of those pending,
\* and when the loop is over they are all of them.
C3_ExactlyPendingWindows ==
    /\ IsPrefix(fetched, NotLoadedOf(ranges))
    /\ IsPrefix(written, fetched)
    /\ Len(fetched) - Len(written) <= 1
    /\ IsPrefix(skipped, LoadedOf(ranges))
    /\ (pc \in {"loop", "done", "aborted", "crashed"} /\ idx > Len(ranges)
            /\ failed_at = 0 /\ Len(ranges) > 0) =>
          /\ fetched = NotLoadedOf(ranges)
          /\ written = NotLoadedOf(ranges)
          /\ skipped = LoadedOf(ranges)

C3_Witness ==
    /\ pc = "done"
    /\ Len(skipped) = 1
    /\ Len(fetched) = 2
    /\ \E k \in loaded : k \notin SeqRange(KeysOf(ranges))

(***************************************************************************)
(* Properties of the checkpoint store                                      *)
(***************************************************************************)
\* C11: after any sequence of save_checkpoint calls, a load_checkpoint call
\* returns exactly the argument of the last save_checkpoint that returned
\* (nothing else having changed the file since): a later save fully replaces
\* an earlier one, and a save that did not return changes nothing.
C11_LoadReturnsLastSaved ==
    (ck_result.op = "load" /\ ck_last # PyNone /\ ~ck_foreign) =>
        /\ ck_result.raised = ""
        /\ ck_result.val = ck_last

C11_Witness ==
    /\ ck_result.op = "load"
    /\ ck_ops = 2
    /\ ck_last = Checkpoint(<<CkOddKey>>)
    /\ ck_prev = TextFile(json_dump(Checkpoint(<<CkKey1, CkKey2>>)))
    /\ ck_result.val = ck_last

\* the document is a checkpoint: a dict whose done_months is a list of strings
IsCheckpoint(v) ==
    /\ v.t = "dict"
    /\ \E i \in DOMAIN v.v : v.v[i][1] = DoneMonthsKey
    /\ DictGet(v, DoneMonthsKey, PyNone).t = "list"
    /\ \A x \in SeqRange(DictGet(v, DoneMonthsKey, PyNone).v) : x.t = "str"

\* the file exists, can be read and holds a parseable checkpoint
HoldsCheckpoint(f) ==
    /\ f.state = "text"
    /\ json_load(f.data).ok
    /\ IsCheckpoint(json_load(f.data).val)

\* C12: whenever the checkpoint file is missing, unreadable or does not
\* hold a parseable checkpoint, load_checkpoint returns the empty checkpoint
\* and raises nothing, and the start of a run (load_checkpoint and the done
\* set built from it) raises nothing and gives the empty done set.
C12_LoadNeverFails ==
    (ck_result.op \in {"load", "setup"} /\ ~HoldsCheckpoint(cp_file)) =>
        /\ ck_result.raised = ""
        /\ ck_result.op = "load" => ck_result.val = EmptyCheckpoint
        /\ ck_result.op = "setup" => ck_result.done = {}

\* C12 for the files the code handles: a missing file, a file open() refuses,
\* and a text that is not one JSON document
C12_LoadOfMissingOrInvalidJson ==
    (/\ ck_result.op \in {"load", "setup"}
     /\ \/ cp_file.state \in {"absent", "locked"}
        \/ cp_file.state = "text" /\ ~json_load(cp_file.data).ok) =>
        /\ ck_result.raised = ""
        /\ ck_result.val = EmptyCheckpoint
        /\ ck_result.done = {}

\* C13: at every point of a save, a failed or killed one included, the
\* checkpoint file is what it was when the save began, until the rename
\* makes it the complete new text; after a save that returned the file holds
\* the complete new text and the temporary file does not exist.
C13_AtomicSave ==
    /\ (ck_pc = "replace" \/ (ck_result.op = "save" /\ ck_result.raised # "")) =>
          cp_file = ck_prev
    /\ (ck_result.op = "save" /\ ck_result.raised = "") =>
          /\ cp_file = TextFile(json_dump(ck_arg))
          /\ cp_tmp = Absent

C13_Witness ==
    /\ ck_result.op = "save"
    /\ ck_result.raised # ""
    /\ ck_last = Checkpoint(<<CkKey1>>)
    /\ cp_file = TextFile(json_dump(ck_last))
    /\ cp_tmp.state = "text"
    /\ cp_tmp.data = SubSeq(json_dump(ck_arg), 1, Len(json_dump(ck_arg)) - 1)
    /\ ck_arg = Checkpoint(<<CkKey1, CkKey2>>)

(***************************************************************************)
(* Properties of normalize_to_df                                           *)
(***************************************************************************)
\* the optional fields that are copied to the column of the same name
CopiedFields ==
    {"title", "original_title", "release_date", "vote_average", "vote_count",
     "popularity", "original_language", "overview"}

NormRows == n_out.val.rows

\* the row of record i has a null for each optional field that is missing or
\* null in the record, and the empty string for genres
NullsKept(i) ==
    /\ \A f \in CopiedFields :
          Get(n_raw[i], f) = PyNone => NormRows[i][f] = PyNone
    /\ Get(n_raw[i], "poster_path") = PyNone => NormRows[i]["poster_url"] = PyNone
    /\ Get(n_raw[i], "genre_ids") = PyNone => NormRows[i]["genres"] = PyStr(<<>>)

\* C17: normalize_to_df is total: whatever optional fields of the records
\* are missing or null, the call returns, and the row of a record has a null
\* for each such field (the empty string for genres).
C17_Total ==
    n_pc \in {"returned", "raised"} =>
        /\ n_pc = "returned"
        /\ \A i \in DOMAIN n_raw : NullsKept(i)

\* C17 for the records whose genre_ids is a list or is missing
C17_TotalWithoutNullGenres ==
    (/\ n_pc \in {"returned", "raised"}
     /\ \A i \in DOMAIN n_raw :
           "genre_ids" \in DOMAIN n_raw[i] => n_raw[i]["genre_ids"] # PyNone) =>
        /\ n_pc = "returned"
        /\ \A i \in DOMAIN n_raw : NullsKept(i)

\* C18: for every list of raw records, the empty list included, the table
\* normalize_to_df returns has exactly the 11 schema columns, in order, and
\* one row per input record, in input order.
C18_SchemaAndRows ==
    n_pc = "returned" =>
        /\ n_out.val.columns =
              <<"tmdb_id", "title", "original_title", "release_date", "genres",
                "vote_average", "vote_count", "popularity", "original_language",
                "overview", "poster_url">>
        /\ Len(NormRows) = Len(n_raw)
        /\ \A i \in DOMAIN n_raw :
              /\ DOMAIN NormRows[i] = SeqRange(n_out.val.columns)
              /\ NormRows[i]["tmdb_id"] = Get(n_raw[i], "id")
              /\ NormRows[i]["title"] = Get(n_raw[i], "title")

C18_Witness ==
    /\ n_pc = "returned"
    /\ Len(n_raw) = 0
    /\ Len(n_out.val.columns) = 11
    /\ Len(NormRows) = 0

RECURSIVE Split(_, _)
\* s.split(c)
Split(s, c) ==
    IF \A i \in DOMAIN s : s[i] # c THEN <<s>>
    ELSE LET i == CHOOSE j \in DOMAIN s :
                    s[j] = c /\ \A k \in 1..(j - 1) : s[k] # c
         IN  <<SubSeq(s, 1, i - 1)>> \o Split(SubSeq(s, i + 1, Len(s)), c)

\* s is the decimal string of the integer n
IsDecimalOf(s, n) ==
    LET digits == IF n < 0 THEN Tail(s) ELSE s
        abs    == IF n < 0 THEN 0 - n ELSE n
    IN  /\ Len(s) > 0
        /\ n < 0 => s[1] = "-"
        /\ Len(digits) > 0
        /\ \A i \in DOMAIN digits : IsDigit(digits[i])
        /\ Len(digits) > 1 => digits[1] # "0"
        /\ DecimalValue(digits) = abs

\* C19: the genres field is the pipe-joined list, in input order, of the
\* mapped name of each code the map has and the decimal string of each code
\* it does not have; an empty code list gives the empty string.
C19_GenresJoined ==
    n_pc = "returned" =>
        \A i \in DOMAIN n_raw :
            LET ids   == GetOr(n_raw[i], "genre_ids", PyList(<<>>)).v
                field == NormRows[i]["genres"]
            IN  /\ field.t = "str"
                /\ Len(ids) = 0 => field.v = <<>>
                /\ Len(ids) > 0 =>
                      /\ Len(Split(field.v, "|")) = Len(ids)
                      /\ \A j \in DOMAIN ids :
                            IF ids[j].v \in DOMAIN n_genres_map
                            THEN Split(field.v, "|")[j] = n_genres_map[ids[j].v]
                            ELSE IsDecimalOf(Split(field.v, "|")[j], ids[j].v)

C19_Witness ==
    /\ n_pc = "returned"
    /\ n_raw = <<CodesRecord, EmptiesRecord>>
    /\ DOMAIN n_genres_map = {12, 28}
    /\ NormRows[1]["genres"].v =
          <<"7", "|", "A", "c", "t", "|", "-", "1", "|", "1", "2", "0">>
    /\ NormRows[2]["genres"].v = <<>>

\* the record has a poster path: the field is there, not null and not empty
HasPosterPath(m) ==
    /\ "poster_path" \in DOMAIN m
    /\ m["poster_path"].t = "str"
    /\ Len(m["poster_path"].v) > 0

\* C20: poster_url is null when the record has no poster path (missing, null
\* or empty), and is image_base, poster_size and poster_path put together
\* when it has one.
C20_PosterUrl ==
    n_pc = "returned" =>
        \A i \in DOMAIN n_raw :
            LET url == NormRows[i]["poster_url"]
            IN  IF HasPosterPath(n_raw[i])
                THEN /\ url.t = "str"
                     /\ Len(url.v) = Len(n_image_base) + Len(n_poster_size)
                                        + Len(n_raw[i]["poster_path"].v)
                     /\ SubSeq(url.v, 1, Len(n_image_base)) = n_image_base
                     /\ SubSeq(url.v, Len(n_image_base) + 1,
                               Len(n_image_base) + Len(n_poster_size)) = n_poster_size
                     /\ SubSeq(url.v, Len(n_image_base) + Len(n_poster_size) + 1,
                               Len(url.v)) = n_raw[i]["poster_path"].v
                ELSE url = PyNone

C20_Witness ==
    /\ n_pc = "returned"
    /\ n_raw = <<FullRecord, EmptiesRecord>>
    /\ n_image_base = <<"h", "/">>
    /\ NormRows[1]["poster_url"] = PyStr(<<"h", "/", "w", "5", "0", "0", "/", "p">>)
    /\ NormRows[2]["poster_url"] = PyNone

(***************************************************************************)
(* Properties of the merge                                                 *)
(***************************************************************************)
\* the tmdb_id values of the rows
IdsOf(rows) == {rows[i]["tmdb_id"] : i \in DOMAIN rows}

\* no two rows share a tmdb_id
UniqueIds(rows) ==
    \A i, j \in DOMAIN rows : i # j => rows[i]["tmdb_id"] # rows[j]["tmdb_id"]

\* the two master files of the running invocation
MasterCsv == master_paths(start, end)[1]

MasterParquet == master_paths(start, end)[2]

\* the invocation has merged and written its master files
MasterWritten ==
    /\ pc = "done"
    /\ DOMAIN parts # {}

\* the window key of a part file name
KeyOfPart(n) == WindowKey(SubSeq(n, 6, 15), SubSeq(n, 20, 29))

\* C14: the master dataset written by a run that reaches the merge step is
\* the union, deduplicated by tmdb_id, of all the artifact files in the
\* parts directory at merge time, those without a checkpoint entry included.
C14_MasterIsUnionOfParts ==
    MasterWritten =>
        /\ MasterCsv \in DOMAIN masters /\ MasterParquet \in DOMAIN masters
        /\ masters[MasterCsv].state = "ok"
        /\ masters[MasterParquet] = masters[MasterCsv]
        /\ LET master == masters[MasterCsv].data.rows
           IN  /\ IdsOf(master) = UNION {IdsOf(parts[n].data.rows) : n \in DOMAIN parts}
               /\ UniqueIds(master)
               /\ \A i \in DOMAIN master :
                     \E n \in DOMAIN parts :
                         \E j \in DOMAIN parts[n].data.rows :
                             parts[n].data.rows[j] = master[i]

C14_Witness ==
    /\ MasterWritten
    /\ \E n \in DOMAIN parts :
          /\ KeyOfPart(n) \notin CpKeys
          /\ \E x \in IdsOf(parts[n].data.rows) :
                /\ x \in IdsOf(masters[MasterCsv].data.rows)
                /\ \A o \in DOMAIN parts \ {n} : x \notin IdsOf(parts[o].data.rows)

\* C15: no two rows of a written partial artifact share a tmdb_id, and no
\* two rows of a written master dataset share a tmdb_id, whatever the
\* provider returned.
C15_UniqueIds ==
    /\ \A n \in DOMAIN parts :
          parts[n].state = "ok" => UniqueIds(parts[n].data.rows)
    /\ \A n \in DOMAIN masters :
          masters[n].state = "ok" => UniqueIds(masters[n].data.rows)

C15_Witness ==
    /\ MasterWritten
    /\ Cardinality(DOMAIN parts) = 3
    /\ Len(ConcatRows(MergeInputs(parts), parts)) = 6
    /\ Len(masters[MasterParquet].data.rows) = 4

\* every window of the range was in the checkpoint the invocation loaded
AllCheckpointed ==
    /\ idx > 0
    /\ \A i \in DOMAIN ranges : KeysOf(ranges)[i] \in loaded

\* the same files with the same contents
SameFiles(f, g) ==
    /\ DOMAIN f = DOMAIN g
    /\ \A n \in DOMAIN f :
          /\ f[n].state = g[n].state
          /\ f[n].state = "ok" => f[n].data = g[n].data

\* C16: an invocation over a range whose windows are all checkpointed calls
\* discover_all for none of them and still executes the merge; when the
\* artifact files are those the previous merge read, the master it writes is
\* identical to the one that merge wrote.
C16_MergeIdempotent ==
    AllCheckpointed =>
        /\ fetched = <<>>
        /\ written = <<>>
        /\ pc = "done" => merged
        /\ (pc = "done" /\ prev_merge # NoMerge /\ SameFiles(prev_merge.files, parts)) =>
              /\ this_merge.master = prev_merge.master
              /\ masters[MasterCsv] = Complete(prev_merge.master)
              /\ masters[MasterParquet] = Complete(prev_merge.master)

C16_Witness ==
    /\ AllCheckpointed
    /\ Len(ranges) = 2
    /\ pc = "done"
    /\ prev_merge # NoMerge
    /\ SameFiles(prev_merge.files, parts)
    /\ Len(prev_merge.master.rows) = 3
    /\ masters[MasterParquet] = Complete(prev_merge.master)

(***************************************************************************)
(* Properties of the master file names                                     *)
(***************************************************************************)
\* "tmdb_movies_<y>" for one year, "tmdb_movies_<y1>-<y2>" for two
MasterStem(y1, y2) ==
    <<"t", "m", "d", "b", "_", "m", "o", "v", "i", "e", "s", "_">> \o
    (IF y1 = y2 THEN NatStr(y1) ELSE NatStr(y1) \o <<"-">> \o NatStr(y2))

CsvName(y1, y2) == MasterStem(y1, y2) \o <<".", "c", "s", "v">>

ParquetName(y1, y2) == MasterStem(y1, y2) \o <<".", "p", "a", "r", "q", "u", "e", "t">>

\* the master file names of the arguments of the invocations
MasterNamesOfArgs ==
    UNION {{CsvName(a[1][1], a[2][1]), ParquetName(a[1][1], a[2][1])} : a \in RunArgs}

\* master_paths on every pair of sample dates
MasterPathsNamedByYears ==
    \A s, e \in SampleDates :
        master_paths(isoformat(s), isoformat(e)) =
            <<CsvName(s[1], e[1]), ParquetName(s[1], e[1])>>

\* C21: the master files of a run are named by the years of its range: one
\* year when the start and the end are in the same year, the two years
\* joined by "-" otherwise, the CSV and the Parquet file alike; no master
\* file has another name.
C21_MasterNames ==
    /\ MasterPathsNamedByYears
    /\ DOMAIN masters \subseteq MasterNamesOfArgs
    /\ MasterWritten =>
          LET y1 == to_date(start)[1]
              y2 == to_date(end)[1]
          IN  /\ CsvName(y1, y2) \in DOMAIN masters
              /\ ParquetName(y1, y2) \in DOMAIN masters
              /\ masters[CsvName(y1, y2)] = Complete(this_merge.master)
              /\ masters[ParquetName(y1, y2)] = Complete(this_merge.master)

C21_Witness ==
    /\ MasterWritten
    /\ to_date(start)[1] # to_date(end)[1]
    /\ DOMAIN masters = {CsvName(BaseYear, BaseYear), ParquetName(BaseYear, BaseYear),
                         CsvName(BaseYear + 1, BaseYear), ParquetName(BaseYear + 1, BaseYear)}
    /\ masters[ParquetName(BaseYear + 1, BaseYear)].state = "ok"

(***************************************************************************)
(* Properties of the checkpoint during a run                               *)
(***************************************************************************)
\* the invocation has loaded the checkpoint
CheckpointLoaded == idx > 0

\* a step that changes the checkpoint file
CheckpointChanges == cp_file' # cp_file

\* a step of a run keeps the loaded set and the completed keys, and a step
\* that changes the checkpoint file is the end of the save of the window
\* just written
AppendOnlyStep ==
    /\ (CheckpointLoaded /\ run_no' = run_no) =>
          /\ loaded' = loaded
          /\ completed \subseteq completed'
    /\ CheckpointChanges =>
          /\ pc = "cp_replace"
          /\ CurKey \notin loaded \cup completed
          /\ written[Len(written)] = CurKey
          /\ PartWritten(ranges[idx])
          /\ completed' = completed \cup {CurKey}

\* C22: the checkpoint is append-only within a run: once loaded, the
\* persisted done_months is always the set loaded at the start of the run,
\* entries of windows outside the range included, together with the keys of
\* the windows completed so far; neither set loses an entry during the run,
\* and each change of the checkpoint file is a save that adds exactly the
\* key of the window just written.
C22_AppendOnly ==
    /\ [](CheckpointLoaded =>
            /\ loaded \subseteq CpKeys
            /\ CpKeys = loaded \cup completed)
    /\ [][AppendOnlyStep]_vars

C22_Witness ==
    /\ pc = "loop"
    /\ completed # {}
    /\ \E k \in loaded :
          /\ k \notin SeqRange(KeysOf(ranges))
          /\ k \in CpKeys
    /\ Cardinality(CpKeys) = Cardinality(loaded) + Cardinality(completed)

(***************************************************************************)
(* Properties of the order of the requests of a run                        *)
(***************************************************************************)
\* a step that issues an HTTP request
IssuesRequest == b_req' # b_req

\* window v of the run is later in the calendar than window w
LaterWindow(w, v) ==
    /\ w < v
    /\ StrLess(b_ranges[w][2], b_ranges[v][1])

\* the request of a step comes next in the order: the configuration, the
\* genres, then for each window in turn the pages 1, 2, ... of that window;
\* a request is repeated only as the next attempt of the same safe_get call
OrderedRequest ==
    LET r == b_req
        q == b_req'
    IN  /\ q.path = "config" =>
              \/ r.path = "none" /\ q.attempt = 0
              \/ r.path = "config" /\ q.attempt = r.attempt + 1
        /\ q.path = "genres" =>
              \/ r.path = "config" /\ q.attempt = 0
              \/ r.path = "genres" /\ q.attempt = r.attempt + 1
        /\ q.path = "discover" =>
              /\ b_calls = [config |-> 1, genres |-> 1]
              /\ q.w \in DOMAIN b_ranges
              /\ \/ r.path = "genres" /\ q.p = 1 /\ q.attempt = 0
                 \/ /\ r.path = "discover"
                    /\ \/ q.w = r.w /\ q.p = r.p /\ q.attempt = r.attempt + 1
                       \/ q.w = r.w /\ q.p = r.p + 1 /\ q.attempt = 0
                       \/ LaterWindow(r.w, q.w) /\ q.p = 1 /\ q.attempt = 0

\* C23: the requests of a run are ordered: the configuration and the genre
\* list are each fetched by one safe_get call, before the first discover
\* request; the windows are requested in chronological order, all the pages
\* of a window before any page of the next, and the pages of a window in
\* ascending order from page 1.
C23_RequestsOrdered ==
    [][/\ IssuesRequest => OrderedRequest
       /\ b_calls'.config <= 1
       /\ b_calls'.genres <= 1]_vars

C23_Witness ==
    /\ b_req.path = "discover"
    /\ b_req.w = 2
    /\ b_req.p = 2
    /\ b_req.attempt = 1
    /\ b_visits[1] = 1
    /\ WindowKey(b_ranges[1][1], b_ranges[1][2]) \in b_done \ b_cp
    /\ b_calls = [config |-> 1, genres |-> 1]

(***************************************************************************)
(* Termination of a run                                                    *)
(***************************************************************************)
\* the invocation has returned or raised
BEnded == b_pc \in {"done", "aborted"}

\* the bounds of the three loops: the attempts of a safe_get call, the pages
\* of a discover_all call, the iterations of the window loop
LoopsBounded ==
    /\ b_attempt <= DefaultMaxRetries
    /\ b_req.attempt < DefaultMaxRetries
    /\ b_pages <= TMDB_MAX_PAGES
    /\ b_p <= TMDB_MAX_PAGES + 1
    /\ \A i \in DOMAIN b_visits : b_visits[i] <= 1
    /\ b_pc = "done" =>
          /\ Len(b_visits) = Len(month_ranges(b_start, b_end))
          /\ \A i \in DOMAIN b_visits : b_visits[i] = 1

\* C26: every invocation of run_monthly_backfill ends, by returning or by
\* raising, whatever the provider answers; until then a safe_get call makes
\* at most max_retries attempts, a window requests at most 500 pages, and
\* the window loop visits each window of the partition once.
C26_Terminates ==
    /\ []LoopsBounded
    /\ <>BEnded

C26_Witness ==
    /\ b_pc = "done"
    /\ Len(b_ranges) = 3
    /\ b_cp = {}
    /\ b_pages = TMDB_MAX_PAGES
    /\ b_req.attempt = DefaultMaxRetries - 1

(***************************************************************************)
(* Properties of the order of the records                                  *)
(***************************************************************************)
\* the items of q that no earlier item matches on Key, in the order of q
FirstOccurrences(q, Key(_)) ==
    LET keep == {i \in DOMAIN q : \A j \in 1..(i - 1) : Key(q[j]) # Key(q[i])}
        F[i \in 0..Len(q)] ==
            IF i = 0 THEN <<>>
            ELSE IF i \in keep THEN Append(F[i - 1], q[i]) ELSE F[i - 1]
    IN  F[Len(q)]

\* the start and the end date of the window of a part file
StartOfPart(n) == to_date(SubSeq(n, 6, 15))

EndOfPart(n) == to_date(SubSeq(n, 20, 29))

\* the window of part n is before that of part o in the calendar
WindowBefore(n, o) ==
    IF StartOfPart(n) # StartOfPart(o) THEN DateLE(StartOfPart(n), StartOfPart(o))
    ELSE EndOfPart(n) # EndOfPart(o) /\ DateLE(EndOfPart(n), EndOfPart(o))

RECURSIVE ByWindow(_)
\* the part files in the calendar order of their windows
ByWindow(S) ==
    IF S = {} THEN <<>>
    ELSE LET n == CHOOSE x \in S : \A y \in S \ {x} : WindowBefore(x, y)
         IN  <<n>> \o ByWindow(S \ {n})

RECURSIVE RowsInOrder(_)
\* the rows of the part files named, one file after the other
RowsInOrder(names) ==
    IF Len(names) = 0 THEN <<>>
    ELSE parts[names[1]].data.rows \o RowsInOrder(Tail(names))

\* the id and the title of each raw record, and of each row
RawPairs(raw) == [i \in DOMAIN raw |-> <<raw[i].id, raw[i].title>>]

RowPairs(rows) == [i \in DOMAIN rows |-> <<rows[i].tmdb_id, rows[i].title>>]

PairId(pr) == pr[1]

RowId(row) == row.tmdb_id

\* C24: a partial artifact holds the records of its window in the order the
\* provider returned them, and the master holds the rows of the artifacts in
\* the calendar order of their windows; of the records that share a
\* tmdb_id, in an artifact and in the master, the first in that order is
\* kept and the others are dropped.
C24_OrderKeptFirstWins ==
    /\ \A n \in DOMAIN parts :
          parts[n].state = "ok" =>
              \E raw \in RawSamples(SubSeq(n, 6, 15)) :
                  RowPairs(parts[n].data.rows) = FirstOccurrences(RawPairs(raw), PairId)
    /\ MasterWritten =>
          masters[MasterParquet].data.rows =
              FirstOccurrences(RowsInOrder(ByWindow(DOMAIN parts)), RowId)

C24_Witness ==
    /\ MasterWritten
    /\ \E n, o \in DOMAIN parts :
          /\ WindowBefore(n, o)
          /\ Len(parts[n].data.rows) = 2
          /\ Len(parts[o].data.rows) = 2
          /\ parts[n].data.rows[2].tmdb_id = parts[o].data.rows[1].tmdb_id
          /\ parts[n].data.rows[2].title # parts[o].data.rows[1].title
          /\ \E i \in DOMAIN masters[MasterParquet].data.rows :
                masters[MasterParquet].data.rows[i] = parts[n].data.rows[2]
          /\ \A i \in DOMAIN masters[MasterParquet].data.rows :
                masters[MasterParquet].data.rows[i] # parts[o].data.rows[1]

(***************************************************************************)
(* The two scripts                                                         *)
(***************************************************************************)
\* both discover_all calls have ended
BothEnded == d_pc = "returned" /\ o_pc \in {"returned", "raised"}

\* the page-1 document reports no more pages than the provider serves, or
\* max_pages limits the call to that many
WithinCap ==
    \/ d_reported <= TMDB_MAX_PAGES
    \/ d_has_max /\ d_max_pages # 0 /\ d_max_pages <= TMDB_MAX_PAGES

\* C25: the discover_all functions of src/movie.py and src/src/movie.py
\* request the same sequence of pages and return the same record list, for
\* every total_pages the provider reports and every max_pages.
C25_SameDiscover ==
    BothEnded =>
        /\ o_pc = "returned"
        /\ o_requested = d_requested
        /\ o_movies = d_movies

\* they do so when the reported total_pages, or max_pages, is within the cap
C25_SameDiscoverWithinCap ==
    (BothEnded /\ WithinCap) =>
        /\ o_pc = "returned"
        /\ o_requested = d_requested
        /\ o_movies = d_movies

====
